---- MODULE Spec2Model ----
(***************************************************************************)
(* Resource-state tracking and barrier synthesis of nvrhi: the per-resource *)
(* state records, the command list's state tracker, the Vulkan commit      *)
(* protocol and binding-diff heuristics, and the copy commands of the      *)
(* Vulkan and D3D12 command lists.                                         *)
(***************************************************************************)
EXTENDS Integers, Sequences, FiniteSets, TLC

VARIABLES
    backend,                  \* which backend's CommandList is recording
    tex,                      \* texture -> TextureState record (owned by the texture)
    buf,                      \* buffer  -> BufferState record (owned by the buffer)
    m_TextureBarriers,        \* pending texture transition records
    m_BufferBarriers,         \* pending buffer transition records
    m_EnableAutomaticBarriers,
    m_BindingStatesDirty,
    m_CurrentGraphicsState,
    m_CurrentComputeState,
    m_CurrentMeshletState,
    m_CurrentRayTracingState,
    renderPassActive,         \* a render pass is in flight on the command buffer
    events,                   \* native calls made by the most recent handler, in order
    lastOp,                   \* the most recent handler call, its arguments and effects
    recorders,                \* recording contexts that share the buffers' state records
    stagingTexture,           \* the staging texture created last, and the footprint read last
    bufferRange,              \* the BufferRange resolved last, and what resolve returned
    timerQueries,             \* timer query -> its started and resolved flags and its time
    queryDevice,              \* the device behind getQueryPoolResults: lost, results available
    timerQueryCall,           \* the getTimerQueryTime call in progress, if any
    queryOp,                  \* the most recent timer query call and what it returned
    m_QueryPools,             \* m_TimerQueryPool and m_PipelineStatisticsQueryPool
    m_Mutex,                  \* the device mutex: 0 when free, else the thread holding it
    threads,                  \* the threads inside createTimerQuery and its sibling
    outstanding,              \* records appended minus native barriers submitted or discarded
    pinnedState,              \* resource -> the state it was pinned in, "none" before
    uavHazards                \* resource -> same-state UnorderedAccess records appended
                              \* for it since its stored state last changed

vars == <<backend, tex, buf, m_TextureBarriers, m_BufferBarriers,
          m_EnableAutomaticBarriers, m_BindingStatesDirty, m_CurrentGraphicsState,
          m_CurrentComputeState, m_CurrentMeshletState, m_CurrentRayTracingState,
          renderPassActive, events, lastOp, outstanding,
          pinnedState, uavHazards, recorders, stagingTexture, bufferRange,
          timerQueries, queryDevice, timerQueryCall, queryOp,
          m_QueryPools, m_Mutex, threads>>

----------------------------------------------------------------------------
(* Bounds of the model *)

\* longest pending list (texture and buffer records together) a handler may leave
MaxPending == 2

\* largest width and height, mip count and array size of a staging texture
MaxExtent == 4
MaxStagingMips == 2
MaxStagingSlices == 3

\* capacity of the query allocators (Device::numTimerQueries and its sibling)
MaxQueryCapacity == 2

\* largest byteSize of a buffer whose ranges are resolved
MaxByteSize == 4

\* the state of the device objects that are not part of a command list
ObjectVars == <<stagingTexture, bufferRange>>
QueryVars == <<timerQueries, queryDevice, timerQueryCall, queryOp>>
PoolVars == <<m_QueryPools, m_Mutex, threads>>
DeviceVars == <<ObjectVars, QueryVars, PoolVars>>

\* the state of the command lists and of the tracked resources
CommandListVars ==
    <<backend, tex, buf, m_TextureBarriers, m_BufferBarriers,
      m_EnableAutomaticBarriers, m_BindingStatesDirty, m_CurrentGraphicsState,
      m_CurrentComputeState, m_CurrentMeshletState, m_CurrentRayTracingState,
      renderPassActive, events, lastOp, outstanding, pinnedState, uavHazards, recorders>>

----------------------------------------------------------------------------
(* Resource states (nvrhi::ResourceStates), opaque values *)

Unknown == "Unknown"
ShaderResource == "ShaderResource"
UnorderedAccess == "UnorderedAccess"
CopySource == "CopySource"
CopyDest == "CopyDest"
RenderTarget == "RenderTarget"
DepthWrite == "DepthWrite"
DepthRead == "DepthRead"
IndexBuffer == "IndexBuffer"
VertexBuffer == "VertexBuffer"
IndirectArgument == "IndirectArgument"
ConstantBuffer == "ConstantBuffer"
AccelStructRead == "AccelStructRead"

----------------------------------------------------------------------------
(* Resources and their descriptors *)

Textures == {"texA", "texB"}
Buffers == {"bufA", "bufB", "bufV", "bufI", "stagingBuf", "volatileCB"}

\* descriptor of each texture: texA is an array texture of 2 mips x 2 slices,
\* texB a plain 2D texture of 2 mips
TexDesc(t) ==
    IF t = "texA"
    THEN [dimension |-> "Texture2DArray", mipLevels |-> 2, arraySize |-> 2]
    ELSE [dimension |-> "Texture2D", mipLevels |-> 2, arraySize |-> 1]

NumSubresources(t) == TexDesc(t).mipLevels * TexDesc(t).arraySize

\* TextureState(numSubresources): every subresource Unknown, flags at their defaults
NewTextureState(n) ==
    [subresourceStates |-> [i \in 1..n |-> Unknown],
     enableUavBarriers |-> TRUE,
     firstUavBarrierPlaced |-> FALSE,
     permanentTransition |-> FALSE]

\* BufferState: Unknown, flags at their defaults
NewBufferState ==
    [state |-> Unknown,
     enableUavBarriers |-> TRUE,
     firstUavBarrierPlaced |-> FALSE,
     permanentTransition |-> FALSE]

----------------------------------------------------------------------------
(* 32-bit unsigned arithmetic.  A uint32_t value is held as the integer     *)
(* congruent to it modulo 2^32 in [-2^31, 2^31): wildcards such as          *)
(* MipLevel(-1) are -1, sums and differences of operands near 0 or near     *)
(* 2^32 wrap as the machine's do, and comparisons are unsigned.             *)

ULess(a, b) == IF (a >= 0) = (b >= 0) THEN a < b ELSE a >= 0
ULessEq(a, b) == a = b \/ ULess(a, b)
UMin(a, b) == IF ULess(b, a) THEN b ELSE a

\* TextureSubresourceSet::AllMipLevels = MipLevel(-1)
AllMipLevels == -1
\* TextureSubresourceSet::AllArraySlices = ArraySlice(-1)
AllArraySlices == -1

SubresourceSet(bm, nm, bs, ns) ==
    [baseMipLevel |-> bm, numMipLevels |-> nm, baseArraySlice |-> bs, numArraySlices |-> ns]

AllSubresources == SubresourceSet(0, AllMipLevels, 0, AllArraySlices)

IsArrayDimension(d) ==
    d \in {"Texture1DArray", "Texture2DArray", "TextureCube", "TextureCubeArray",
           "Texture2DMSArray"}

\* a plausible slip: the base array slice of the request is dropped
ResolveDropsBaseSlice(sub, desc, singleMipLevel) ==
    LET lastMipLevelPlusOne == UMin(sub.baseMipLevel + sub.numMipLevels, desc.mipLevels)
        lastArraySlicePlusOne == UMin(sub.baseArraySlice + sub.numArraySlices, desc.arraySize)
    IN  [baseMipLevel |-> sub.baseMipLevel,
         numMipLevels |-> IF singleMipLevel THEN 1 ELSE lastMipLevelPlusOne - sub.baseMipLevel,
         baseArraySlice |-> 0,
         numArraySlices |-> IF IsArrayDimension(desc.dimension)
                            THEN lastArraySlicePlusOne - sub.baseArraySlice ELSE 1]

\* a plausible slip: one mip level is resolved whatever singleMipLevel says
ResolveSingleMip(sub, desc, singleMipLevel) ==
    LET lastArraySlicePlusOne == UMin(sub.baseArraySlice + sub.numArraySlices, desc.arraySize)
    IN  [baseMipLevel |-> sub.baseMipLevel,
         numMipLevels |-> 1,
         baseArraySlice |-> IF IsArrayDimension(desc.dimension) THEN sub.baseArraySlice ELSE 0,
         numArraySlices |-> IF IsArrayDimension(desc.dimension)
                            THEN lastArraySlicePlusOne - sub.baseArraySlice ELSE 1]

\* a plausible slip: the mip count of the request is not consulted
ResolveAllMips(sub, desc, singleMipLevel) ==
    LET lastArraySlicePlusOne == UMin(sub.baseArraySlice + sub.numArraySlices, desc.arraySize)
    IN  [baseMipLevel |-> sub.baseMipLevel,
         numMipLevels |-> IF singleMipLevel THEN 1 ELSE desc.mipLevels - sub.baseMipLevel,
         baseArraySlice |-> IF IsArrayDimension(desc.dimension) THEN sub.baseArraySlice ELSE 0,
         numArraySlices |-> IF IsArrayDimension(desc.dimension)
                            THEN lastArraySlicePlusOne - sub.baseArraySlice ELSE 1]

\* TextureSubresourceSet::resolve
Resolve(sub, desc, singleMipLevel) ==
    LET lastMipLevelPlusOne == UMin(sub.baseMipLevel + sub.numMipLevels, desc.mipLevels)
        lastArraySlicePlusOne == UMin(sub.baseArraySlice + sub.numArraySlices, desc.arraySize)
    IN  [baseMipLevel |-> sub.baseMipLevel,
         numMipLevels |-> IF singleMipLevel THEN 1 ELSE lastMipLevelPlusOne - sub.baseMipLevel,
         baseArraySlice |-> IF IsArrayDimension(desc.dimension) THEN sub.baseArraySlice ELSE 0,
         numArraySlices |-> IF IsArrayDimension(desc.dimension)
                            THEN lastArraySlicePlusOne - sub.baseArraySlice ELSE 1]

\* TextureSubresourceSet::isEntireTexture
IsEntireTexture(sub, desc) ==
    IF sub.baseMipLevel # 0 \/ ULess(sub.baseMipLevel + sub.numMipLevels, desc.mipLevels)
    THEN FALSE
    ELSE IF IsArrayDimension(desc.dimension)
              /\ (sub.baseArraySlice # 0
                  \/ ULess(sub.baseArraySlice + sub.numArraySlices, desc.arraySize))
         THEN FALSE
         ELSE TRUE

----------------------------------------------------------------------------
(* The recording context as one value: the state a handler reads and the   *)
(* state it leaves, so that a handler is the composition of the calls it   *)
(* makes.  ev, diag, nApp and nOut record what the handler did.            *)

Cur ==
    [tex |-> tex, buf |-> buf, tb |-> m_TextureBarriers, bb |-> m_BufferBarriers,
     rp |-> renderPassActive, backend |-> backend, dirty |-> m_BindingStatesDirty,
     ev |-> <<>>,       \* native calls made so far by this handler
     diag |-> 0,        \* messages sent to the message callback by this handler
     nApp |-> 0,        \* transition records appended by this handler
     nOut |-> 0,        \* records that left the pending lists: submitted or discarded
     req |-> {},        \* <<resource, state>> of the requireState calls made by this handler
     sets |-> {},       \* <<slot, binding set>> passed to setResourceStatesForBindingSet
     hz |-> [r \in Textures \cup Buffers |-> 0]]
                        \* same-state UnorderedAccess records appended, per resource

\* position of a subresource in subresourceStates (flat array, mip-major), 1-based
CalcSubresource(mipLevel, arraySlice, desc) == mipLevel * desc.arraySize + arraySlice + 1

\* the resolved set lies inside the descriptor
InBounds(r, desc) ==
    /\ ULessEq(r.baseMipLevel, desc.mipLevels)
    /\ ULessEq(r.numMipLevels, desc.mipLevels - r.baseMipLevel)
    /\ ULessEq(r.baseArraySlice, desc.arraySize)
    /\ ULessEq(r.numArraySlices, desc.arraySize - r.baseArraySlice)

\* the (mip, slice) pairs of a resolved in-bounds set, in the order they are visited
SubresourceList(r) ==
    [i \in 1..(r.numMipLevels * r.numArraySlices) |->
        <<r.baseMipLevel + ((i - 1) \div r.numArraySlices),
          r.baseArraySlice + ((i - 1) % r.numArraySlices)>>]

TextureBarrier(t, entire, mip, slice, before, after) ==
    [texture |-> t, entireTexture |-> entire, mipLevel |-> mip, arraySlice |-> slice,
     stateBefore |-> before, stateAfter |-> after]

BufferBarrier(b, before, after) ==
    [buffer |-> b, stateBefore |-> before, stateAfter |-> after]

\* a plausible slip: firstUavBarrierPlaced is not consulted
TransitionNeededIgnoresPlaced(prior, state, rec) ==
    \/ prior # state
    \/ state = UnorderedAccess /\ rec.enableUavBarriers

\* whether a request for `state` on a record holding `prior` needs a transition record
TransitionNeeded(prior, state, rec) ==
    \/ prior # state
    \/ state = UnorderedAccess /\ rec.enableUavBarriers /\ ~rec.firstUavBarrierPlaced

\* a plausible slip: placing the hazard record does not set the flag
UavFlagAfterNeverSet(prior, state, rec) ==
    IF prior # state
    THEN state = UnorderedAccess
    ELSE rec.firstUavBarrierPlaced

\* firstUavBarrierPlaced after a request for `state` on a record holding `prior`
UavFlagAfter(prior, state, rec) ==
    IF prior # state
    THEN state = UnorderedAccess
    ELSE IF state = UnorderedAccess /\ rec.enableUavBarriers
         THEN TRUE
         ELSE rec.firstUavBarrierPlaced

\* one subresource of a requireTextureState call
RequireSubresource(s, t, mip, slice, state) ==
    LET rec == s.tex[t]
        idx == CalcSubresource(mip, slice, TexDesc(t))
        prior == rec.subresourceStates[idx]
        need == TransitionNeeded(prior, state, rec)
        rec2 == [rec EXCEPT !.subresourceStates[idx] = state,
                            !.firstUavBarrierPlaced = UavFlagAfter(prior, state, rec)]
    IN  [s EXCEPT !.tex[t] = rec2,
                  !.tb = IF need
                         THEN Append(@, TextureBarrier(t, FALSE, mip, slice, prior, state))
                         ELSE @,
                  !.nApp = IF need THEN @ + 1 ELSE @,
                  !.hz[t] = IF need /\ prior = state THEN @ + 1 ELSE @]

RECURSIVE RequireSubresources(_, _, _, _)
RequireSubresources(s, t, list, state) ==
    IF list = <<>>
    THEN s
    ELSE RequireSubresources(
             RequireSubresource(s, t, Head(list)[1], Head(list)[2], state),
             t, Tail(list), state)

\* every subresource of the texture holds the same stored state
UniformState(rec) ==
    \A i \in DOMAIN rec.subresourceStates :
        rec.subresourceStates[i] = rec.subresourceStates[1]

\* a whole-texture request on a texture whose subresources share one state:
\* one record flagged entireTexture
RequireEntireTexture(s, t, state) ==
    LET rec == s.tex[t]
        prior == rec.subresourceStates[1]
        need == TransitionNeeded(prior, state, rec)
        rec2 == [rec EXCEPT !.subresourceStates = [i \in DOMAIN @ |-> state],
                            !.firstUavBarrierPlaced = UavFlagAfter(prior, state, rec)]
    IN  [s EXCEPT !.tex[t] = rec2,
                  !.tb = IF need
                         THEN Append(@, TextureBarrier(t, TRUE, 0, 0, prior, state))
                         ELSE @,
                  !.nApp = IF need THEN @ + 1 ELSE @,
                  !.hz[t] = IF need /\ prior = state THEN @ + 1 ELSE @]

\* CommandListResourceStateTracker::requireTextureState
Tracker_requireTextureState(s0, t, subresources, state) ==
    LET desc == TexDesc(t)
        r == Resolve(subresources, desc, FALSE)
        s == [s0 EXCEPT !.req = @ \cup {<<t, state>>}]
    IN  IF s.tex[t].permanentTransition
        THEN s
        ELSE IF ~InBounds(r, desc)
        THEN [s EXCEPT !.diag = @ + 1]
        ELSE IF IsEntireTexture(r, desc) /\ UniformState(s.tex[t])
        THEN RequireEntireTexture(s, t, state)
        ELSE RequireSubresources(s, t, SubresourceList(r), state)

\* a plausible slip: the transition is appended but the stored state is not
\* updated
Tracker_requireBufferStateKeepsStored(s0, b, state) ==
    LET s == [s0 EXCEPT !.req = @ \cup {<<b, state>>}]
        rec == s.buf[b]
        prior == rec.state
        need == TransitionNeeded(prior, state, rec)
    IN  IF rec.permanentTransition THEN s
        ELSE [s EXCEPT !.bb = IF need THEN Append(@, BufferBarrier(b, prior, state)) ELSE @,
                       !.nApp = IF need THEN @ + 1 ELSE @]

\* CommandListResourceStateTracker::requireBufferState
Tracker_requireBufferState(s0, b, state) ==
    LET s == [s0 EXCEPT !.req = @ \cup {<<b, state>>}]
        rec == s.buf[b]
        prior == rec.state
        need == TransitionNeeded(prior, state, rec)
        rec2 == [rec EXCEPT !.state = state,
                            !.firstUavBarrierPlaced = UavFlagAfter(prior, state, rec)]
    IN  IF rec.permanentTransition
        THEN s
        ELSE [s EXCEPT !.buf[b] = rec2,
                       !.bb = IF need THEN Append(@, BufferBarrier(b, prior, state)) ELSE @,
                       !.nApp = IF need THEN @ + 1 ELSE @,
                       !.hz[b] = IF need /\ prior = state THEN @ + 1 ELSE @]

\* CommandListResourceStateTracker::setPermanentTextureState
Tracker_setPermanentTextureState(s, t, subresources, state) ==
    LET s1 == Tracker_requireTextureState(s, t, subresources, state)
    IN  [s1 EXCEPT !.tex[t].permanentTransition = TRUE]

\* CommandListResourceStateTracker::setPermanentBufferState
Tracker_setPermanentBufferState(s, b, state) ==
    LET s1 == Tracker_requireBufferState(s, b, state)
    IN  [s1 EXCEPT !.buf[b].permanentTransition = TRUE]

\* CommandListResourceStateTracker::getTextureSubresourceState
Tracker_getTextureSubresourceState(s, t, arraySlice, mipLevel) ==
    s.tex[t].subresourceStates[CalcSubresource(mipLevel, arraySlice, TexDesc(t))]

\* CommandListResourceStateTracker::getBufferState
Tracker_getBufferState(s, b) == s.buf[b].state

\* a plausible slip: the buffer records survive the clear
Tracker_clearBarriersTexturesOnly(s) ==
    [s EXCEPT !.tb = <<>>]

\* CommandListResourceStateTracker::clearBarriers
Tracker_clearBarriers(s) ==
    [s EXCEPT !.tb = <<>>, !.bb = <<>>]

\* CommandListResourceStateTracker::beginTrackingTextureState: the named
\* subresources are stored as being in `state`; nothing is appended
Tracker_beginTrackingTextureState(s, t, subresources, state) ==
    LET desc == TexDesc(t)
        r == Resolve(subresources, desc, FALSE)
        named == {CalcSubresource(SubresourceList(r)[i][1], SubresourceList(r)[i][2], desc) :
                      i \in DOMAIN SubresourceList(r)}
    IN  [s EXCEPT !.tex[t].subresourceStates =
                      [i \in DOMAIN @ |-> IF i \in named THEN state ELSE @[i]]]

\* CommandListResourceStateTracker::beginTrackingBufferState
Tracker_beginTrackingBufferState(s, b, state) ==
    [s EXCEPT !.buf[b].state = state]

\* CommandListResourceStateTracker::setEnableUavBarriersForTexture
Tracker_setEnableUavBarriersForTexture(s, t, enableBarriers) ==
    [s EXCEPT !.tex[t].enableUavBarriers = enableBarriers]

\* CommandListResourceStateTracker::setEnableUavBarriersForBuffer
Tracker_setEnableUavBarriersForBuffer(s, b, enableBarriers) ==
    [s EXCEPT !.buf[b].enableUavBarriers = enableBarriers]

----------------------------------------------------------------------------
(* Native side: the calls a handler makes on the command buffer, logged in  *)
(* s.ev in the order they are made.                                         *)

\* convertResourceState: the native image layout of an abstract state
ConvertResourceState(state, isTexture) ==
    [imageLayout |-> IF isTexture
                     THEN (IF state = Unknown THEN "eUndefined" ELSE state)
                     ELSE "none",
     access |-> state]

\* a plausible slip: the range of an entireTexture record stops at mip 0
ImageMemoryBarrierFirstMipOnly(barrier) ==
    LET desc == TexDesc(barrier.texture)
    IN  [image |-> barrier.texture,
         oldLayout |-> ConvertResourceState(barrier.stateBefore, TRUE).imageLayout,
         newLayout |-> ConvertResourceState(barrier.stateAfter, TRUE).imageLayout,
         baseArrayLayer |-> IF barrier.entireTexture THEN 0 ELSE barrier.arraySlice,
         layerCount |-> IF barrier.entireTexture THEN desc.arraySize ELSE 1,
         baseMipLevel |-> IF barrier.entireTexture THEN 0 ELSE barrier.mipLevel,
         levelCount |-> 1]

\* the vk::ImageMemoryBarrier2 built for one pending texture record
ImageMemoryBarrier(barrier) ==
    LET desc == TexDesc(barrier.texture)
    IN  [image |-> barrier.texture,
         oldLayout |-> ConvertResourceState(barrier.stateBefore, TRUE).imageLayout,
         newLayout |-> ConvertResourceState(barrier.stateAfter, TRUE).imageLayout,
         baseArrayLayer |-> IF barrier.entireTexture THEN 0 ELSE barrier.arraySlice,
         layerCount |-> IF barrier.entireTexture THEN desc.arraySize ELSE 1,
         baseMipLevel |-> IF barrier.entireTexture THEN 0 ELSE barrier.mipLevel,
         levelCount |-> IF barrier.entireTexture THEN desc.mipLevels ELSE 1]

\* the vk::BufferMemoryBarrier2 built for one pending buffer record
BufferMemoryBarrier(barrier) ==
    [buffer |-> barrier.buffer,
     srcAccess |-> ConvertResourceState(barrier.stateBefore, FALSE).access,
     dstAccess |-> ConvertResourceState(barrier.stateAfter, FALSE).access]

\* one native barrier call: cmdBuf.pipelineBarrier2(dep_info)
NativeBarrierCall(s, imageBarriers, bufferBarriers) ==
    [s EXCEPT !.ev = Append(@, [kind |-> "nativeBarrier",
                                imageBarriers |-> imageBarriers,
                                bufferBarriers |-> bufferBarriers,
                                inRenderPass |-> s.rp]),
              !.nOut = @ + Len(imageBarriers) + Len(bufferBarriers)]

\* CommandList::endRenderPass: ends the render pass in flight, if any
endRenderPass(s) ==
    [s EXCEPT !.rp = FALSE,
              !.ev = Append(@, [kind |-> "endRenderPass", wasActive |-> s.rp])]

\* a plausible slip: only the buffer records are dropped after a commit
ClearPendingBuffersOnly(s) ==
    [s EXCEPT !.bb = <<>>, !.ev = Append(@, [kind |-> "clearBarriers"])]

\* m_StateTracker.clearBarriers() as called by a commit
ClearPending(s) ==
    [Tracker_clearBarriers(s) EXCEPT !.ev = Append(@, [kind |-> "clearBarriers"])]

\* a plausible slip: the barriers are submitted but the pending lists are kept
commitBarriersInternalKeepsPending(s) ==
    LET imageBarriers == [i \in 1..Len(s.tb) |-> ImageMemoryBarrier(s.tb[i])]
        bufferBarriers == [i \in 1..Len(s.bb) |-> BufferMemoryBarrier(s.bb[i])]
        s1 == IF imageBarriers # <<>> THEN NativeBarrierCall(s, imageBarriers, <<>>) ELSE s
    IN  IF bufferBarriers # <<>> THEN NativeBarrierCall(s1, <<>>, bufferBarriers) ELSE s1

\* vulkan CommandList::commitBarriersInternal
commitBarriersInternal(s) ==
    LET imageBarriers == [i \in 1..Len(s.tb) |-> ImageMemoryBarrier(s.tb[i])]
        bufferBarriers == [i \in 1..Len(s.bb) |-> BufferMemoryBarrier(s.bb[i])]
        s1 == IF imageBarriers # <<>> THEN NativeBarrierCall(s, imageBarriers, <<>>) ELSE s
        s2 == IF bufferBarriers # <<>> THEN NativeBarrierCall(s1, <<>>, bufferBarriers) ELSE s1
    IN  ClearPending(s2)

\* a plausible slip: the render pass is ended whether or not anything is pending
VkCommitBarriersAlwaysEnds(s) ==
    commitBarriersInternal(endRenderPass(s))

\* a plausible slip: the barriers are submitted inside the render pass
VkCommitBarriersInsidePass(s) ==
    IF s.bb = <<>> /\ s.tb = <<>>
    THEN s
    ELSE endRenderPass(commitBarriersInternal(s))

\* vulkan CommandList::commitBarriers
VkCommitBarriers(s) ==
    IF s.bb = <<>> /\ s.tb = <<>>
    THEN s
    ELSE commitBarriersInternal(endRenderPass(s))

\* d3d12 CommandList::commitBarriers: every pending record in one ResourceBarrier call
D3D12CommitBarriers(s) ==
    IF s.bb = <<>> /\ s.tb = <<>>
    THEN s
    ELSE LET s1 == endRenderPass(s)
             imageBarriers == [i \in 1..Len(s1.tb) |-> ImageMemoryBarrier(s1.tb[i])]
             bufferBarriers == [i \in 1..Len(s1.bb) |-> BufferMemoryBarrier(s1.bb[i])]
         IN  ClearPending(NativeBarrierCall(s1, imageBarriers, bufferBarriers))

\* commitBarriers() of the recording backend
commitBarriers(s) ==
    IF s.backend = "vulkan" THEN VkCommitBarriers(s) ELSE D3D12CommitBarriers(s)

\* vulkan CommandList::requireTextureState
requireTextureState(s, t, subresources, state) ==
    Tracker_requireTextureState(s, t, subresources, state)

\* vulkan CommandList::requireBufferState
requireBufferState(s, b, state) ==
    Tracker_requireBufferState(s, b, state)

\* vulkan CommandList::anyBarriers
anyBarriers(s) == s.bb # <<>> \/ s.tb # <<>>

----------------------------------------------------------------------------
(* Binding sets, framebuffers and the binding-diff heuristics *)

Binding(type, resource, subresources) ==
    [type |-> type, resourceHandle |-> resource, subresources |-> subresources]

\* the binding sets of the model: an SRV of mip 1 of texB, a UAV of bufA together
\* with a sampler, a constant buffer, and a bindless set (getDesc() == nullptr)
BindingSetInfo(bs) ==
    IF bs = "bsSrv"
    THEN [bindless |-> FALSE,
          bindings |-> <<Binding("Texture_SRV", "texB", SubresourceSet(1, 1, 0, 1))>>,
          bindingsThatNeedTransitions |-> <<1>>,
          hasUavBindings |-> FALSE]
    ELSE IF bs = "bsUav"
    THEN [bindless |-> FALSE,
          bindings |-> <<Binding("TypedBuffer_UAV", "bufA", "none"),
                         Binding("Sampler", "sampler", "none")>>,
          bindingsThatNeedTransitions |-> <<1>>,
          hasUavBindings |-> TRUE]
    ELSE IF bs = "bsCb"
    THEN [bindless |-> FALSE,
          bindings |-> <<Binding("ConstantBuffer", "bufB", "none")>>,
          bindingsThatNeedTransitions |-> <<1>>,
          hasUavBindings |-> FALSE]
    ELSE IF bs = "bsTexUav"
    THEN [bindless |-> FALSE,
          bindings |-> <<Binding("Texture_UAV", "texB", SubresourceSet(1, 1, 0, 1)),
                         Binding("TypedBuffer_SRV", "bufA", "none")>>,
          bindingsThatNeedTransitions |-> <<1, 2>>,
          hasUavBindings |-> TRUE]
    ELSE IF bs = "bsRaw"
    THEN [bindless |-> FALSE,
          bindings |-> <<Binding("RawBuffer_SRV", "bufV", "none"),
                         Binding("RawBuffer_UAV", "bufI", "none")>>,
          bindingsThatNeedTransitions |-> <<1, 2>>,
          hasUavBindings |-> TRUE]
    ELSE IF bs = "bsStruct"
    THEN [bindless |-> FALSE,
          bindings |-> <<Binding("StructuredBuffer_SRV", "bufV", "none"),
                         Binding("StructuredBuffer_UAV", "bufA", "none")>>,
          bindingsThatNeedTransitions |-> <<1, 2>>,
          hasUavBindings |-> TRUE]
    ELSE IF bs = "bsAs"
    THEN [bindless |-> FALSE,
          bindings |-> <<Binding("RayTracingAccelStruct", "tlas", "none"),
                         Binding("TypedBuffer_SRV", "bufV", "none"),
                         Binding("Sampler", "sampler", "none")>>,
          bindingsThatNeedTransitions |-> <<1, 3>>,
          hasUavBindings |-> FALSE]
    ELSE [bindless |-> TRUE, bindings |-> <<>>,
          bindingsThatNeedTransitions |-> <<>>, hasUavBindings |-> FALSE]

\* AccelStruct::dataBuffer
DataBuffer(as) == "bufB"

\* one binding of setResourceStatesForBindingSet: the switch on binding.type
RequireBinding(s, binding) ==
    IF binding.type = "Texture_SRV"
    THEN requireTextureState(s, binding.resourceHandle, binding.subresources, ShaderResource)
    ELSE IF binding.type = "Texture_UAV"
    THEN requireTextureState(s, binding.resourceHandle, binding.subresources, UnorderedAccess)
    ELSE IF binding.type \in {"TypedBuffer_SRV", "StructuredBuffer_SRV", "RawBuffer_SRV"}
    THEN requireBufferState(s, binding.resourceHandle, ShaderResource)
    ELSE IF binding.type \in {"TypedBuffer_UAV", "StructuredBuffer_UAV", "RawBuffer_UAV"}
    THEN requireBufferState(s, binding.resourceHandle, UnorderedAccess)
    ELSE IF binding.type = "ConstantBuffer"
    THEN requireBufferState(s, binding.resourceHandle, ConstantBuffer)
    ELSE IF binding.type = "RayTracingAccelStruct"
    THEN requireBufferState(s, DataBuffer(binding.resourceHandle), AccelStructRead)
    ELSE s

RECURSIVE RequireBindings(_, _, _)
RequireBindings(s, bindings, indices) ==
    IF indices = <<>>
    THEN s
    ELSE RequireBindings(RequireBinding(s, bindings[Head(indices)]), bindings, Tail(indices))

\* vulkan CommandList::setResourceStatesForBindingSet
\* a plausible slip: every binding of the set is visited, listed or not
setResourceStatesForBindingSetAllBindings(s, bs) ==
    IF bs = "null"
    THEN s
    ELSE IF BindingSetInfo(bs).bindless
    THEN s
    ELSE RequireBindings(s, BindingSetInfo(bs).bindings,
                         [i \in 1..Len(BindingSetInfo(bs).bindings) |-> i])

setResourceStatesForBindingSet(s, bs) ==
    IF bs = "null"
    THEN s
    ELSE IF BindingSetInfo(bs).bindless
    THEN s
    ELSE RequireBindings(s, BindingSetInfo(bs).bindings,
                         BindingSetInfo(bs).bindingsThatNeedTransitions)

\* ~0u as the set of its bit positions
AllBits == 0..31

\* a plausible slip: any difference marks every slot
arrayDifferenceMaskAllOrNothing(a, b) ==
    IF a # b THEN AllBits ELSE {}

\* arrayDifferenceMask: one bit per slot, set for the slots at which the two
\* vectors differ and for the slots only one of them has
arrayDifferenceMask(a, b) ==
    {i \in AllBits :
        /\ i < Len(a) \/ i < Len(b)
        /\ \/ i >= Len(a)
           \/ i >= Len(b)
           \/ a[i + 1] # b[i + 1]}

\* arraysAreDifferent
arraysAreDifferent(a, b) == a # b

RECURSIVE UpdateBindingSets(_, _, _, _)
UpdateBindingSets(s, newBindings, bindingUpdateMask, i) ==
    IF i >= Len(newBindings)
    THEN s
    ELSE LET bs == newBindings[i + 1]
             updateThisSet == i \in bindingUpdateMask
             s1 == IF BindingSetInfo(bs).bindless
                   THEN s
                   ELSE IF updateThisSet \/ BindingSetInfo(bs).hasUavBindings
                        THEN setResourceStatesForBindingSet(
                                 [s EXCEPT !.sets = @ \cup {<<i, bs>>}], bs)
                        ELSE s
         IN  UpdateBindingSets(s1, newBindings, bindingUpdateMask, i + 1)

\* a plausible slip: the dirty flag is not consulted
insertResourceBarriersForBindingSetsDiffOnly(s, newBindings, oldBindings) ==
    LET bindingUpdateMask == arrayDifferenceMask(newBindings, oldBindings)
    IN  IF bindingUpdateMask # {}
        THEN UpdateBindingSets(s, newBindings, bindingUpdateMask, 0)
        ELSE s

\* vulkan CommandList::insertResourceBarriersForBindingSets
insertResourceBarriersForBindingSets(s, newBindings, oldBindings) ==
    LET mask0 == IF s.dirty THEN AllBits ELSE {}
        bindingUpdateMask == IF mask0 = {}
                             THEN arrayDifferenceMask(newBindings, oldBindings)
                             ELSE mask0
    IN  IF bindingUpdateMask # {}
        THEN UpdateBindingSets(s, newBindings, bindingUpdateMask, 0)
        ELSE s

Attachment(t, subresources) == [texture |-> t, subresources |-> subresources]

\* the framebuffers of the model: fbColor renders to mip 0 of texB
FramebufferDesc(fb) ==
    [colorAttachments |-> <<Attachment("texB", SubresourceSet(0, 1, 0, 1))>>,
     depthAttachment |-> [texture |-> "null", subresources |-> "none", isReadOnly |-> FALSE]]

RECURSIVE SetColorAttachmentStates(_, _)
SetColorAttachmentStates(s, attachments) ==
    IF attachments = <<>>
    THEN s
    ELSE SetColorAttachmentStates(
             Tracker_requireTextureState(s, Head(attachments).texture,
                                         Head(attachments).subresources, RenderTarget),
             Tail(attachments))

\* ICommandList::setResourceStatesForFramebuffer
setResourceStatesForFramebuffer(s, fb) ==
    LET desc == FramebufferDesc(fb)
        s1 == SetColorAttachmentStates(s, desc.colorAttachments)
    IN  IF desc.depthAttachment.texture # "null"
        THEN Tracker_requireTextureState(s1, desc.depthAttachment.texture,
                 desc.depthAttachment.subresources,
                 IF desc.depthAttachment.isReadOnly THEN DepthRead ELSE DepthWrite)
        ELSE s1

RECURSIVE RequireVertexBuffers(_, _)
RequireVertexBuffers(s, vbs) ==
    IF vbs = <<>>
    THEN s
    ELSE RequireVertexBuffers(requireBufferState(s, Head(vbs), VertexBuffer), Tail(vbs))

\* vulkan CommandList::insertGraphicsResourceBarriers
insertGraphicsResourceBarriers(s, state, cur) ==
    LET dirty == s.dirty
        s1 == insertResourceBarriersForBindingSets(s, state.bindings, cur.bindings)
        s2 == IF state.indexBuffer # "null" /\ (dirty \/ state.indexBuffer # cur.indexBuffer)
              THEN requireBufferState(s1, state.indexBuffer, IndexBuffer)
              ELSE s1
        s3 == IF dirty \/ arraysAreDifferent(state.vertexBuffers, cur.vertexBuffers)
              THEN RequireVertexBuffers(s2, state.vertexBuffers)
              ELSE s2
        s4 == IF dirty \/ cur.framebuffer # state.framebuffer
              THEN setResourceStatesForFramebuffer(s3, state.framebuffer)
              ELSE s3
        s5 == IF state.indirectParams # "null"
                 /\ (dirty \/ state.indirectParams # cur.indirectParams)
              THEN requireBufferState(s4, state.indirectParams, IndirectArgument)
              ELSE s4
        s6 == IF state.indirectCountParams # "null"
                 /\ (dirty \/ state.indirectCountParams # cur.indirectCountParams)
              THEN requireBufferState(s5, state.indirectCountParams, IndirectArgument)
              ELSE s5
    IN  [s6 EXCEPT !.dirty = FALSE]

\* vulkan CommandList::insertComputeResourceBarriers
insertComputeResourceBarriers(s, state, cur) ==
    LET s1 == insertResourceBarriersForBindingSets(s, state.bindings, cur.bindings)
        s2 == IF state.indirectParams # "null"
                 /\ (s.dirty \/ state.indirectParams # cur.indirectParams)
              THEN requireBufferState(s1, state.indirectParams, IndirectArgument)
              ELSE s1
    IN  [s2 EXCEPT !.dirty = FALSE]

----------------------------------------------------------------------------
(* Copy commands *)

\* StagingTexture::buffer, the buffer backing a staging texture
StagingBuffer(st) == "stagingBuf"

\* BufferDesc of each buffer
BufDesc(b) ==
    [isVolatile |-> b = "volatileCB",
     canHaveUAVs |-> b # "bufB"]

\* a copy or clear command recorded on the native command list, with the pending
\* lists and the tracked states of its operands at that moment
NativeCommand(s, kind, srcState, dstState) ==
    [s EXCEPT !.ev = Append(@, [kind |-> kind, pendingEmpty |-> ~anyBarriers(s),
                                srcState |-> srcState, dstState |-> dstState,
                                inRenderPass |-> s.rp])]

\* a plausible slip: the barriers are committed before the states are required
copyTextureToStagingCommitsFirst(s, dst, src, mipLevel, arraySlice, auto) ==
    LET srcSubresource == SubresourceSet(mipLevel, 1, arraySlice, 1)
        s0 == commitBarriers(s)
        s1 == IF auto
              THEN requireTextureState(
                       requireBufferState(s0, StagingBuffer(dst), CopyDest),
                       src, srcSubresource, CopySource)
              ELSE s0
    IN  NativeCommand(s1, "copyImageToBuffer",
                      Tracker_getTextureSubresourceState(s1, src, arraySlice, mipLevel),
                      Tracker_getBufferState(s1, StagingBuffer(dst)))

\* vulkan CommandList::copyTexture(IStagingTexture* dst, ..., ITexture* src, ...)
copyTextureToStaging(s, dst, src, mipLevel, arraySlice, auto) ==
    LET srcSubresource == SubresourceSet(mipLevel, 1, arraySlice, 1)
        s1 == IF auto
              THEN requireTextureState(
                       requireBufferState(s, StagingBuffer(dst), CopyDest),
                       src, srcSubresource, CopySource)
              ELSE s
        s2 == commitBarriers(s1)
    IN  NativeCommand(s2, "copyImageToBuffer",
                      Tracker_getTextureSubresourceState(s2, src, arraySlice, mipLevel),
                      Tracker_getBufferState(s2, StagingBuffer(dst)))

\* vulkan CommandList::copyTexture(ITexture* dst, ..., IStagingTexture* src, ...)
copyTextureFromStaging(s, dst, src, mipLevel, arraySlice, auto) ==
    LET dstSubresource == SubresourceSet(mipLevel, 1, arraySlice, 1)
        s1 == IF auto
              THEN requireTextureState(
                       requireBufferState(s, StagingBuffer(src), CopySource),
                       dst, dstSubresource, CopyDest)
              ELSE s
        s2 == commitBarriers(s1)
    IN  NativeCommand(s2, "copyBufferToImage",
                      Tracker_getBufferState(s2, StagingBuffer(src)),
                      Tracker_getTextureSubresourceState(s2, dst, arraySlice, mipLevel))


\* a plausible slip: the destination is made CopyDest before the upload
\* allocation is known to have succeeded
writeBufferRequiresFirst(s, b, uploadOk, auto) ==
    LET s1 == IF auto /\ ~BufDesc(b).isVolatile THEN requireBufferState(s, b, CopyDest) ELSE s
    IN  IF ~uploadOk
        THEN [s1 EXCEPT !.diag = @ + 1]
        ELSE IF BufDesc(b).isVolatile
        THEN s1
        ELSE LET s2 == commitBarriers(s1)
             IN  NativeCommand(s2, "CopyBufferRegion", "upload",
                               Tracker_getBufferState(s2, b))

\* d3d12 CommandList::writeBuffer
writeBuffer(s, b, uploadOk, auto) ==
    IF ~uploadOk
    THEN [s EXCEPT !.diag = @ + 1]
    ELSE IF BufDesc(b).isVolatile
    THEN s
    ELSE LET s1 == IF auto THEN requireBufferState(s, b, CopyDest) ELSE s
             s2 == commitBarriers(s1)
         IN  NativeCommand(s2, "CopyBufferRegion", "upload", Tracker_getBufferState(s2, b))

\* d3d12 CommandList::clearBufferUInt
clearBufferUInt(s, b, auto) ==
    IF ~BufDesc(b).canHaveUAVs
    THEN [s EXCEPT !.diag = @ + 1]
    ELSE LET s1 == IF auto THEN requireBufferState(s, b, UnorderedAccess) ELSE s
             s2 == commitBarriers(s1)
         IN  NativeCommand(s2, "ClearUnorderedAccessViewUint", "none",
                           Tracker_getBufferState(s2, b))

\* a plausible slip: the states are required whatever the flag says
copyBufferAlwaysRequires(s, dest, src, auto) ==
    LET s1 == requireBufferState(requireBufferState(s, dest, CopyDest), src, CopySource)
        s2 == commitBarriers(s1)
    IN  NativeCommand(s2, "CopyBufferRegion",
                      Tracker_getBufferState(s2, src), Tracker_getBufferState(s2, dest))

\* d3d12 CommandList::copyBuffer
copyBuffer(s, dest, src, auto) ==
    LET s1 == IF auto
              THEN requireBufferState(requireBufferState(s, dest, CopyDest), src, CopySource)
              ELSE s
        s2 == commitBarriers(s1)
    IN  NativeCommand(s2, "CopyBufferRegion",
                      Tracker_getBufferState(s2, src), Tracker_getBufferState(s2, dest))

----------------------------------------------------------------------------
(* Handlers.  Each action is one call on the command list: it runs the      *)
(* handler on Cur and installs the resulting context.                       *)

\* what lastOp keeps of a call: its name and arguments, what the call found
\* (prior), the call before it where a claim speaks of two calls in a row
\* (after), and what the handler appended, submitted and reported
Op(kind, res, sub, state, prior, after, s) ==
    [kind |-> kind, res |-> res, sub |-> sub, state |-> state,
     prior |-> prior, after |-> after,
     nApp |-> s.nApp, nOut |-> s.nOut, diag |-> s.diag,
     req |-> s.req, sets |-> s.sets]

NoOp == Op("none", "none", "none", "none", "none", "none", Cur)

\* what a call found in a texture's record: the state its subresources share
\* ("mixed" when they differ) and the flags
TexSummary(rec) ==
    [state |-> IF UniformState(rec) THEN rec.subresourceStates[1] ELSE "mixed",
     first |-> rec.firstUavBarrierPlaced,
     pinned |-> rec.permanentTransition,
     enable |-> rec.enableUavBarriers]

\* what a call found in a buffer's record
BufSummary(rec) ==
    [state |-> rec.state, first |-> rec.firstUavBarrierPlaced,
     pinned |-> rec.permanentTransition, enable |-> rec.enableUavBarriers]

\* the previous call, when it was the same call with the same arguments
SameCallBefore(kind, res, sub, state) ==
    IF lastOp.kind = kind /\ lastOp.res = res /\ lastOp.sub = sub /\ lastOp.state = state
    THEN [lastOp EXCEPT !.after = "none"]
    ELSE NoOp

InstallState(s, op) ==
    /\ Len(s.tb) + Len(s.bb) <= MaxPending
    /\ tex' = s.tex
    /\ buf' = s.buf
    /\ m_TextureBarriers' = s.tb
    /\ m_BufferBarriers' = s.bb
    /\ renderPassActive' = s.rp
    /\ events' = s.ev
    /\ lastOp' = op
    /\ outstanding' = outstanding + s.nApp - s.nOut
    /\ m_BindingStatesDirty' = s.dirty
    /\ pinnedState' = [r \in DOMAIN pinnedState |->
                           IF /\ op.kind \in {"setPermanentTextureState",
                                              "setPermanentBufferState"}
                              /\ op.res = r
                              /\ ~op.prior.pinned
                           THEN op.state
                           ELSE pinnedState[r]]
    /\ uavHazards' = [r \in DOMAIN uavHazards |->
                          IF r \in Textures
                          THEN (IF s.tex[r].subresourceStates # tex[r].subresourceStates
                                THEN 0 ELSE uavHazards[r] + s.hz[r])
                          ELSE (IF s.buf[r].state # buf[r].state
                                THEN 0 ELSE uavHazards[r] + s.hz[r])]
    /\ UNCHANGED <<backend, recorders>>

Install(s, op) ==
    /\ InstallState(s, op)
    /\ UNCHANGED DeviceVars

BindingVars == <<m_CurrentGraphicsState, m_CurrentComputeState, m_CurrentMeshletState,
                 m_CurrentRayTracingState>>

\* vulkan CommandList::setTextureState
SetTextureState(t, subresources, stateBits) ==
    LET s == Tracker_requireTextureState(Cur, t, subresources, stateBits)
    IN  /\ Install(s, Op("setTextureState", t, subresources, stateBits, TexSummary(tex[t]),
                         SameCallBefore("setTextureState", t, subresources, stateBits), s))
        /\ UNCHANGED <<m_EnableAutomaticBarriers, BindingVars>>

\* vulkan CommandList::setBufferState
SetBufferState(b, stateBits) ==
    LET s == Tracker_requireBufferState(Cur, b, stateBits)
    IN  /\ Install(s, Op("setBufferState", b, "none", stateBits, BufSummary(buf[b]),
                         "none", s))
        /\ UNCHANGED <<m_EnableAutomaticBarriers, BindingVars>>

\* a plausible slip: only the first mip level is pinned
setPermanentTextureStateFirstMip(s, t, stateBits) ==
    Tracker_setPermanentTextureState(s, t, SubresourceSet(0, 1, 0, AllArraySlices), stateBits)

\* vulkan CommandList::setPermanentTextureState
setPermanentTextureState(s, t, stateBits) ==
    Tracker_setPermanentTextureState(s, t, AllSubresources, stateBits)

\* a plausible slip: the state is required but the buffer is not pinned
setPermanentBufferStateNotPinned(s, b, stateBits) ==
    Tracker_requireBufferState(s, b, stateBits)

\* vulkan CommandList::setPermanentBufferState
setPermanentBufferState(s, b, stateBits) ==
    Tracker_setPermanentBufferState(s, b, stateBits)

SetPermanentTextureState(t, stateBits) ==
    LET s == setPermanentTextureState(Cur, t, stateBits)
    IN  /\ Install(s, Op("setPermanentTextureState", t, "none", stateBits,
                         TexSummary(tex[t]), "none", s))
        /\ UNCHANGED <<m_EnableAutomaticBarriers, BindingVars>>

SetPermanentBufferState(b, stateBits) ==
    LET s == setPermanentBufferState(Cur, b, stateBits)
    IN  /\ Install(s, Op("setPermanentBufferState", b, "none", stateBits,
                         BufSummary(buf[b]), "none", s))
        /\ UNCHANGED <<m_EnableAutomaticBarriers, BindingVars>>

\* commitBarriers() called by the application
CommitBarriers ==
    LET s == commitBarriers(Cur)
    IN  /\ Install(s, Op("commitBarriers", "none", "none", "none",
                         [tb |-> m_TextureBarriers, bb |-> m_BufferBarriers],
                         IF lastOp.kind \in {"setTextureState", "clearBarriers"}
                         THEN [lastOp EXCEPT !.after = "none"] ELSE NoOp, s))
        /\ UNCHANGED <<m_EnableAutomaticBarriers, BindingVars>>

\* a plausible slip: tracking begins from a new record
beginTrackingTextureStateFromScratch(s, t, subresources, stateBits) ==
    Tracker_beginTrackingTextureState(
        [s EXCEPT !.tex[t] = NewTextureState(NumSubresources(t))], t, subresources, stateBits)

\* vulkan CommandList::beginTrackingTextureState
beginTrackingTextureState(s, t, subresources, stateBits) ==
    Tracker_beginTrackingTextureState(s, t, subresources, stateBits)

\* a plausible slip: seeding goes through the transition path
beginTrackingBufferStateAsRequire(s, b, stateBits) ==
    Tracker_requireBufferState(s, b, stateBits)

\* vulkan CommandList::beginTrackingBufferState
beginTrackingBufferState(s, b, stateBits) ==
    Tracker_beginTrackingBufferState(s, b, stateBits)

BeginTrackingTextureState(t, subresources, stateBits) ==
    LET s == beginTrackingTextureState(Cur, t, subresources, stateBits)
    IN  /\ Install(s, Op("beginTrackingTextureState", t, subresources, stateBits,
                         TexSummary(tex[t]), "none", s))
        /\ UNCHANGED <<m_EnableAutomaticBarriers, BindingVars>>

BeginTrackingBufferState(b, stateBits) ==
    LET s == beginTrackingBufferState(Cur, b, stateBits)
    IN  /\ Install(s, Op("beginTrackingBufferState", b, "none", stateBits,
                         BufSummary(buf[b]), "none", s))
        /\ UNCHANGED <<m_EnableAutomaticBarriers, BindingVars>>

\* a plausible slip: the flag is stored inverted
setEnableUavBarriersForBufferInverted(s, b, enableBarriers) ==
    Tracker_setEnableUavBarriersForBuffer(s, b, ~enableBarriers)

\* vulkan CommandList::setEnableUavBarriersForTexture
setEnableUavBarriersForTexture(s, t, enableBarriers) ==
    Tracker_setEnableUavBarriersForTexture(s, t, enableBarriers)

\* vulkan CommandList::setEnableUavBarriersForBuffer
setEnableUavBarriersForBuffer(s, b, enableBarriers) ==
    Tracker_setEnableUavBarriersForBuffer(s, b, enableBarriers)

SetEnableUavBarriersForTexture(t, enableBarriers) ==
    LET s == setEnableUavBarriersForTexture(Cur, t, enableBarriers)
    IN  /\ Install(s, Op("setEnableUavBarriersForTexture", t, "none", enableBarriers,
                         TexSummary(tex[t]), "none", s))
        /\ UNCHANGED <<m_EnableAutomaticBarriers, BindingVars>>

SetEnableUavBarriersForBuffer(b, enableBarriers) ==
    LET s == setEnableUavBarriersForBuffer(Cur, b, enableBarriers)
    IN  /\ Install(s, Op("setEnableUavBarriersForBuffer", b, "none", enableBarriers,
                         BufSummary(buf[b]), "none", s))
        /\ UNCHANGED <<m_EnableAutomaticBarriers, BindingVars>>

\* the pending lists are discarded: the state tracker's clearBarriers() on a
\* command list that is reset
ClearBarriers ==
    LET s == [Tracker_clearBarriers(Cur) EXCEPT
                  !.nOut = Len(m_TextureBarriers) + Len(m_BufferBarriers)
                               - Len(Tracker_clearBarriers(Cur).tb)
                               - Len(Tracker_clearBarriers(Cur).bb)]
    IN  /\ Install(s, Op("clearBarriers", "none", "none", "none",
                         [tb |-> m_TextureBarriers, bb |-> m_BufferBarriers], "none", s))
        /\ UNCHANGED <<m_EnableAutomaticBarriers, BindingVars>>

\* vulkan CommandList::setEnableAutomaticBarriers
SetEnableAutomaticBarriers(enable) ==
    /\ m_EnableAutomaticBarriers' = enable
    /\ Install(Cur, Op("setEnableAutomaticBarriers", "none", "none", enable,
                           "none", "none", Cur))
    /\ UNCHANGED BindingVars

\* CommandList::copyTexture, texture to staging texture
CopyTextureToStaging(dst, src, mipLevel, arraySlice) ==
    LET s == copyTextureToStaging(Cur, dst, src, mipLevel, arraySlice,
                                  m_EnableAutomaticBarriers)
    IN  /\ backend = "vulkan"
        /\ Install(s, Op("copyTextureToStaging", <<dst, src>>,
                         <<mipLevel, arraySlice>>, "none", "none", "none", s))
        /\ UNCHANGED <<m_EnableAutomaticBarriers, BindingVars>>

\* CommandList::copyTexture, staging texture to texture
CopyTextureFromStaging(dst, src, mipLevel, arraySlice) ==
    LET s == copyTextureFromStaging(Cur, dst, src, mipLevel, arraySlice,
                                    m_EnableAutomaticBarriers)
    IN  /\ backend = "vulkan"
        /\ Install(s, Op("copyTextureFromStaging", <<dst, src>>,
                         <<mipLevel, arraySlice>>, "none", "none", "none", s))
        /\ UNCHANGED <<m_EnableAutomaticBarriers, BindingVars>>

\* CommandList::writeBuffer; uploadOk is whether the upload manager could
\* suballocate the staging memory
WriteBuffer(b, uploadOk) ==
    LET s == writeBuffer(Cur, b, uploadOk, m_EnableAutomaticBarriers)
    IN  /\ backend = "d3d12"
        /\ Install(s, Op("writeBuffer", b, "none", uploadOk, "none", "none", s))
        /\ UNCHANGED <<m_EnableAutomaticBarriers, BindingVars>>

\* CommandList::clearBufferUInt
ClearBufferUInt(b) ==
    LET s == clearBufferUInt(Cur, b, m_EnableAutomaticBarriers)
    IN  /\ backend = "d3d12"
        /\ Install(s, Op("clearBufferUInt", b, "none", "none", "none", "none", s))
        /\ UNCHANGED <<m_EnableAutomaticBarriers, BindingVars>>

\* CommandList::copyBuffer
CopyBuffer(dest, src) ==
    LET s == copyBuffer(Cur, dest, src, m_EnableAutomaticBarriers)
    IN  /\ backend = "d3d12"
        /\ Install(s, Op("copyBuffer", <<dest, src>>, "none", "none", "none", "none", s))
        /\ UNCHANGED <<m_EnableAutomaticBarriers, BindingVars>>

NoGraphicsState ==
    [bindings |-> <<>>, indexBuffer |-> "null", vertexBuffers |-> <<>>,
     framebuffer |-> "null", indirectParams |-> "null", indirectCountParams |-> "null"]

NoComputeState == [bindings |-> <<>>, indirectParams |-> "null"]

\* the graphics states the application sets: gsSrv samples mip 1 of texB while
\* rendering to its mip 0, with bufB as index buffer; gsPair adds a UAV of bufA
\* in slot 1, a vertex buffer and an indirect-count buffer; gsSwap is gsPair
\* with a constant buffer in slot 1; gsUav writes bufA through a UAV, with a
\* bindless set in slot 1 and bufB as indirect-argument buffer
GraphicsStateDesc(gs) ==
    IF gs = "gsSrv"
    THEN [bindings |-> <<"bsSrv">>, indexBuffer |-> "bufB", vertexBuffers |-> <<>>,
          framebuffer |-> "fbColor", indirectParams |-> "null",
          indirectCountParams |-> "null"]
    ELSE IF gs = "gsPair"
    THEN [bindings |-> <<"bsSrv", "bsUav">>, indexBuffer |-> "bufB",
          vertexBuffers |-> <<"bufV">>, framebuffer |-> "fbColor",
          indirectParams |-> "bufI", indirectCountParams |-> "bufI"]
    ELSE IF gs = "gsSwap"
    THEN [bindings |-> <<"bsSrv", "bsCb">>, indexBuffer |-> "bufB",
          vertexBuffers |-> <<"bufV">>, framebuffer |-> "fbColor",
          indirectParams |-> "bufI", indirectCountParams |-> "bufI"]
    ELSE [bindings |-> <<"bsUav", "bsBindless">>, indexBuffer |-> "null",
          vertexBuffers |-> <<>>, framebuffer |-> "fbColor",
          indirectParams |-> "bufB", indirectCountParams |-> "null"]

\* the compute states the application sets: csUav writes bufA through a UAV,
\* csUavPair also samples mip 1 of texB in slot 1
ComputeStateDesc(cs) ==
    IF cs = "csUavPair"
    THEN [bindings |-> <<"bsUav", "bsSrv">>, indirectParams |-> "null"]
    ELSE [bindings |-> <<"bsUav">>, indirectParams |-> "null"]

\* the render pass begun for the draws that follow setGraphicsState
beginRenderPass(s) ==
    [s EXCEPT !.rp = TRUE, !.ev = Append(@, [kind |-> "beginRenderPass"])]

\* vulkan CommandList::setGraphicsState: barriers for the new state, commit, begin
\* the render pass, remember the state for the next diff
SetGraphicsState(gs) ==
    LET state == GraphicsStateDesc(gs)
        s1 == IF m_EnableAutomaticBarriers
              THEN insertGraphicsResourceBarriers(Cur, state, m_CurrentGraphicsState)
              ELSE Cur
        s2 == beginRenderPass(commitBarriers(s1))
    IN  /\ backend = "vulkan"
        /\ Install(s2, Op("setGraphicsState", gs, "none", "none",
                          [dirty |-> m_BindingStatesDirty, state |-> m_CurrentGraphicsState],
                          "none", s2))
        /\ m_CurrentGraphicsState' = state
        /\ UNCHANGED <<m_EnableAutomaticBarriers, m_CurrentComputeState,
                       m_CurrentMeshletState, m_CurrentRayTracingState>>

\* vulkan CommandList::setResourceStatesForBindingSet, called on its own
SetResourceStatesForBindingSet(bs) ==
    LET s == setResourceStatesForBindingSet(Cur, bs)
    IN  /\ backend = "vulkan"
        /\ Install(s, Op("setResourceStatesForBindingSet", bs, "none", "none",
                         "none", "none", s))
        /\ UNCHANGED <<m_EnableAutomaticBarriers, BindingVars>>

\* vulkan CommandList::setComputeState
SetComputeState(cs) ==
    LET state == ComputeStateDesc(cs)
        s1 == IF m_EnableAutomaticBarriers
              THEN insertComputeResourceBarriers(Cur, state, m_CurrentComputeState)
              ELSE Cur
        s2 == commitBarriers(s1)
    IN  /\ backend = "vulkan"
        /\ Install(s2, Op("setComputeState", cs, "none", "none",
                          [dirty |-> m_BindingStatesDirty, state |-> m_CurrentComputeState],
                          "none", s2))
        /\ m_CurrentComputeState' = state
        /\ UNCHANGED <<m_EnableAutomaticBarriers, m_CurrentGraphicsState,
                       m_CurrentMeshletState, m_CurrentRayTracingState>>

\* a plausible slip: the dirty flag is cleared before the checks that read it
insertMeshletResourceBarriersClearsFirst(s0, state, cur) ==
    LET s1 == insertResourceBarriersForBindingSets(s0, state.bindings, cur.bindings)
        s == [s1 EXCEPT !.dirty = FALSE]
        s2 == IF s.dirty \/ cur.framebuffer # state.framebuffer
              THEN setResourceStatesForFramebuffer(s, state.framebuffer)
              ELSE s
        s3 == IF state.indirectParams # "null"
                 /\ (s.dirty \/ state.indirectParams # cur.indirectParams)
              THEN requireBufferState(s2, state.indirectParams, IndirectArgument)
              ELSE s2
    IN  s3

\* vulkan CommandList::insertMeshletResourceBarriers
insertMeshletResourceBarriers(s, state, cur) ==
    LET s1 == insertResourceBarriersForBindingSets(s, state.bindings, cur.bindings)
        s2 == IF s.dirty \/ cur.framebuffer # state.framebuffer
              THEN setResourceStatesForFramebuffer(s1, state.framebuffer)
              ELSE s1
        s3 == IF state.indirectParams # "null"
                 /\ (s.dirty \/ state.indirectParams # cur.indirectParams)
              THEN requireBufferState(s2, state.indirectParams, IndirectArgument)
              ELSE s2
    IN  [s3 EXCEPT !.dirty = FALSE]

\* vulkan CommandList::insertRayTracingResourceBarriers
insertRayTracingResourceBarriers(s, state, cur) ==
    LET s1 == insertResourceBarriersForBindingSets(s, state.bindings, cur.bindings)
    IN  [s1 EXCEPT !.dirty = FALSE]

\* vulkan CommandList::setMeshletState: barriers for the new state, commit,
\* begin the render pass, remember the state for the next diff
SetMeshletState(state) ==
    LET s1 == IF m_EnableAutomaticBarriers
              THEN insertMeshletResourceBarriers(Cur, state, m_CurrentMeshletState)
              ELSE Cur
        s2 == beginRenderPass(commitBarriers(s1))
    IN  /\ backend = "vulkan"
        /\ Install(s2, Op("setMeshletState", state, "none", "none",
                          [dirty |-> m_BindingStatesDirty, state |-> m_CurrentMeshletState],
                          "none", s2))
        /\ m_CurrentMeshletState' = state
        /\ UNCHANGED <<m_EnableAutomaticBarriers, m_CurrentGraphicsState,
                       m_CurrentComputeState, m_CurrentRayTracingState>>

\* vulkan CommandList::setRayTracingState: barriers for the new state, commit,
\* remember the state for the next diff
SetRayTracingState(state) ==
    LET s1 == IF m_EnableAutomaticBarriers
              THEN insertRayTracingResourceBarriers(Cur, state, m_CurrentRayTracingState)
              ELSE Cur
        s2 == commitBarriers(s1)
    IN  /\ backend = "vulkan"
        /\ Install(s2, Op("setRayTracingState", state, "none", "none",
                          [dirty |-> m_BindingStatesDirty, state |-> m_CurrentRayTracingState],
                          "none", s2))
        /\ m_CurrentRayTracingState' = state
        /\ UNCHANGED <<m_EnableAutomaticBarriers, m_CurrentGraphicsState,
                       m_CurrentComputeState, m_CurrentMeshletState>>

\* CommandList::clearState: the cached binding state is invalidated
ClearState ==
    LET s == [Cur EXCEPT !.dirty = TRUE]
    IN  /\ Install(s, Op("clearState", "none", "none", "none", "none", "none", s))
        /\ m_CurrentGraphicsState' = NoGraphicsState
        /\ m_CurrentComputeState' = NoComputeState
        /\ m_CurrentMeshletState' =
               [bindings |-> <<>>, framebuffer |-> "null", indirectParams |-> "null"]
        /\ m_CurrentRayTracingState' = [bindings |-> <<>>]
        /\ UNCHANGED m_EnableAutomaticBarriers

\* the binding state is invalidated while the states of the previous draw and
\* dispatch stay remembered: m_BindingStatesDirty is set
InvalidateBindingStates ==
    LET s == [Cur EXCEPT !.dirty = TRUE]
    IN  /\ Install(s, Op("invalidateBindingStates", "none", "none", "none", "none",
                         "none", s))
        /\ UNCHANGED <<m_EnableAutomaticBarriers, BindingVars>>

----------------------------------------------------------------------------
(* Staging textures (vulkan): the placed footprints of the subresources in  *)
(* the backing buffer.  Sizes are size_t and stay far below 2^32 here.       *)

\* getFormatInfo: block size in texels and bytes per block
FormatInfo(format) ==
    IF format = "R8_UNORM" THEN [blockSize |-> 1, bytesPerBlock |-> 1]
    ELSE IF format = "RG8_UNORM" THEN [blockSize |-> 1, bytesPerBlock |-> 2]
    ELSE IF format = "RGBA8_UNORM" THEN [blockSize |-> 1, bytesPerBlock |-> 4]
    ELSE [blockSize |-> 4, bytesPerBlock |-> 8]      \* BC1_UNORM

UMax(a, b) == IF ULess(a, b) THEN b ELSE a

alignBufferOffset(off) == ((off + (4 - 1)) \div 4) * 4

\* the inner loop of computeCopyableFootprints: one footprint per array slice
RECURSIVE PlaceArraySlices(_, _, _, _, _)
PlaceArraySlices(layout, placed, offset, arraySlice, arraySize) ==
    IF arraySlice >= arraySize
    THEN [placedFootprints |-> placed, offset |-> offset]
    ELSE PlaceArraySlices(layout,
                          Append(placed, [layout EXCEPT !.offset = alignBufferOffset(offset),
                                                        !.arraySlice = arraySlice]),
                          offset + layout.totalBytes, arraySlice + 1, arraySize)

\* the outer loop of computeCopyableFootprints: one layout per mip level
RECURSIVE PlaceMipSlices(_, _, _, _, _, _, _, _)
PlaceMipSlices(desc, placed, offset, mipSlice, width, height, depth, arraySize) ==
    IF mipSlice >= desc.mipLevels
    THEN [placedFootprints |-> placed, offset |-> offset]
    ELSE LET formatInfo == FormatInfo(desc.format)
             wInBlocks == UMax((width + formatInfo.blockSize - 1) \div formatInfo.blockSize, 1)
             hInBlocks == UMax((height + formatInfo.blockSize - 1) \div formatInfo.blockSize, 1)
             rowSizeInBytes == wInBlocks * formatInfo.bytesPerBlock
             layout == [rowSizeInBytes |-> rowSizeInBytes,
                        numRows |-> hInBlocks,
                        totalBytes |-> depth * hInBlocks * rowSizeInBytes,
                        format |-> desc.format,
                        width |-> width, height |-> height, depth |-> depth,
                        rowPitch |-> rowSizeInBytes,
                        offset |-> 0,
                        mipSlice |-> mipSlice,     \* the loop indices the footprint
                        arraySlice |-> 0]          \* was generated for
             r == PlaceArraySlices(layout, placed, offset, 0, arraySize)
         IN  PlaceMipSlices(desc, r.placedFootprints, r.offset, mipSlice + 1,
                            UMax(width \div 2, 1), UMax(height \div 2, 1),
                            UMax(depth \div 2, 1), arraySize)

\* StagingTexture::computeCopyableFootprints: the footprints and the total size
computeCopyableFootprints(desc) ==
    PlaceMipSlices(desc, <<>>, 0, 0, desc.width, desc.height,
                   IF desc.dimension = "Texture3D" THEN desc.depth ELSE 1,
                   IF desc.dimension = "Texture3D" THEN 1 ELSE desc.arraySize)

\* StagingTexture::getCopyableFootprint
getCopyableFootprint(st, mipLevel, arraySlice) ==
    st.placedFootprints[mipLevel * st.desc.arraySize + arraySlice + 1]

\* handle and read hold at most one element: the staging texture, if one was
\* created, and the footprint read last from it
NoStagingTexture == [handle |-> <<>>, read |-> <<>>]

\* Device::createStagingTexture; bufferOk is whether createBuffer succeeded
createStagingTexture(desc, bufferOk) ==
    LET r == computeCopyableFootprints(desc)
    IN  IF bufferOk
        THEN [handle |-> <<[desc |-> desc, placedFootprints |-> r.placedFootprints,
                            buffer |-> [byteSize |-> r.offset]]>>,
              read |-> <<>>]
        ELSE NoStagingTexture

\* the descriptors the application passes: depth 1 unless the texture is 3D,
\* array size 1 when it is
StagingDescs ==
    {[dimension |-> d, format |-> f, width |-> w, height |-> h, depth |-> z,
      mipLevels |-> m, arraySize |-> a] :
        d \in {"Texture2D", "Texture3D"},
        f \in {"R8_UNORM", "RG8_UNORM", "RGBA8_UNORM", "BC1_UNORM"},
        w \in {1, 3, MaxExtent}, h \in {1, MaxExtent}, z \in {1, 2},
        m \in 1..MaxStagingMips, a \in 1..MaxStagingSlices}

CreateStagingTexture(desc, bufferOk) ==
    /\ IF desc.dimension = "Texture3D" THEN desc.arraySize = 1 ELSE desc.depth = 1
    /\ stagingTexture' = createStagingTexture(desc, bufferOk)
    /\ UNCHANGED <<CommandListVars, QueryVars, PoolVars, bufferRange>>

\* a footprint of the staging texture is read, as the copy and map functions do
GetCopyableFootprint(mipLevel, arraySlice) ==
    /\ stagingTexture.handle # <<>>
    /\ mipLevel < stagingTexture.handle[1].desc.mipLevels
    /\ arraySlice < stagingTexture.handle[1].desc.arraySize
    /\ stagingTexture' =
           [stagingTexture EXCEPT !.read =
               <<[mipLevel |-> mipLevel, arraySlice |-> arraySlice,
                  footprint |-> getCopyableFootprint(stagingTexture.handle[1],
                                                     mipLevel, arraySlice)]>>]
    /\ UNCHANGED <<CommandListVars, QueryVars, PoolVars, bufferRange>>

----------------------------------------------------------------------------
(* Buffer ranges (BufferRange::resolve).  byteOffset and byteSize are       *)
(* unsigned (64 bits in the code, 30 here); resolve compares them and       *)
(* subtracts the smaller from the larger, so that no operation of it wraps. *)

\* ~0ull, the byteSize of EntireBuffer: the largest value a range can hold
AllBytes == 1073741823

BufferRange(byteOffset, byteSize) == [byteSize |-> byteSize, byteOffset |-> byteOffset]

Min(a, b) == IF a < b THEN a ELSE b

\* a plausible slip: the offset is taken as passed
BufferRange_resolveKeepsOffset(range, desc) ==
    LET byteOffset == range.byteOffset
    IN  IF range.byteSize = 0
        THEN BufferRange(byteOffset,
                         IF byteOffset <= desc.byteSize THEN desc.byteSize - byteOffset
                         ELSE AllBytes - (byteOffset - desc.byteSize) + 1)
        ELSE BufferRange(byteOffset,
                         Min(range.byteSize,
                             IF byteOffset <= desc.byteSize THEN desc.byteSize - byteOffset
                             ELSE AllBytes - (byteOffset - desc.byteSize) + 1))

\* BufferRange::resolve
BufferRange_resolve(range, desc) ==
    LET byteOffset == Min(range.byteOffset, desc.byteSize)
    IN  IF range.byteSize = 0
        THEN BufferRange(byteOffset, desc.byteSize - byteOffset)
        ELSE BufferRange(byteOffset, Min(range.byteSize, desc.byteSize - byteOffset))

NoBufferRange ==
    [range |-> BufferRange(0, 0), desc |-> [byteSize |-> 0],
     resolved |-> BufferRange(0, 0), again |-> BufferRange(0, 0), calls |-> 0]

\* the values a range is built from: inside, at and beyond the buffer's end,
\* and the largest one
RangeValues == (0..(MaxByteSize + 1)) \cup {AllBytes}

\* a range is resolved against a buffer's descriptor, and the result once more
ResolveBufferRange(range, desc) ==
    LET resolved == BufferRange_resolve(range, desc)
    IN  /\ bufferRange' = [range |-> range, desc |-> desc, resolved |-> resolved,
                           again |-> BufferRange_resolve(resolved, desc), calls |-> 1]
        /\ UNCHANGED <<CommandListVars, QueryVars, PoolVars, stagingTexture>>

----------------------------------------------------------------------------
(* Lazy creation of the query pools.  Device::createTimerQuery and          *)
(* Device::createPipelineStatisticsQuery have the same shape: a check of    *)
(* the pool without the mutex, the same check with it, createQueryPool, and *)
(* the allocation of a query index.  Threads run them statement by          *)
(* statement.                                                               *)

QueryKinds == {"timer", "pipelineStatistics"}
Threads == {1, 2}

\* first: what the check without the mutex saw: "null" for a pool that was
\* null, "stale" for null read while another thread had already stored the
\* pool, "pool" for the pool
NewThread == [pc |-> "idle", kind |-> "none", first |-> "none", result |-> "none"]

\* pool: m_TimerQueryPool or m_PipelineStatisticsQueryPool; created: the
\* createQueryPool calls that succeeded for it; allocated: the query indices
\* in use; early: an index was allocated while the pool was null
NoQueryPool == [pool |-> "null", created |-> 0, allocated |-> 0, early |-> FALSE]

PoolStep == UNCHANGED <<CommandListVars, ObjectVars, QueryVars>>

\* a thread calls createTimerQuery (kind "timer") or createPipelineStatisticsQuery
CallCreateQuery(t, kind) ==
    /\ threads[t].pc = "idle"
    /\ threads' = [threads EXCEPT ![t] = [NewThread EXCEPT !.pc = "check", !.kind = kind]]
    /\ UNCHANGED <<m_QueryPools, m_Mutex>>
    /\ PoolStep

\* if (!m_TimerQueryPool), read without the mutex: the read races with the
\* store another thread makes under the mutex and may miss it
FirstCheck(t, stale) ==
    LET stored == m_QueryPools[threads[t].kind].pool
        seen == IF stale THEN "null" ELSE stored
    IN  /\ threads[t].pc = "check"
        /\ threads' = [threads EXCEPT ![t].pc = IF seen = "null" THEN "lock" ELSE "allocate",
                                      ![t].first = IF stored = "null" THEN "null"
                                                   ELSE IF stale THEN "stale" ELSE "pool"]
        /\ UNCHANGED <<m_QueryPools, m_Mutex>>
        /\ PoolStep

\* std::lock_guard lockGuard(m_Mutex)
Lock(t) ==
    /\ threads[t].pc = "lock"
    /\ m_Mutex = 0
    /\ m_Mutex' = t
    /\ threads' = [threads EXCEPT ![t].pc = "check2"]
    /\ UNCHANGED m_QueryPools
    /\ PoolStep

\* a plausible slip: the pool is not checked again under the mutex
SecondCheckSkipped(t) ==
    /\ threads[t].pc = "check2"
    /\ threads' = [threads EXCEPT ![t].pc = "create"]
    /\ UNCHANGED <<m_QueryPools, m_Mutex>>
    /\ PoolStep

\* if (!m_TimerQueryPool), read with the mutex held
SecondCheck(t) ==
    /\ threads[t].pc = "check2"
    /\ threads' = [threads EXCEPT ![t].pc =
                       IF m_QueryPools[threads[t].kind].pool = "null"
                       THEN "create" ELSE "unlock"]
    /\ UNCHANGED <<m_QueryPools, m_Mutex>>
    /\ PoolStep

\* device.createQueryPool and CHECK_VK_FAIL: a failed call leaves the pool
\* null and the function returns nullptr, which releases the mutex
CreateQueryPool(t, ok) ==
    /\ threads[t].pc = "create"
    /\ IF ok
       THEN /\ m_QueryPools' = [m_QueryPools EXCEPT ![threads[t].kind].pool = "pool",
                                                    ![threads[t].kind].created = @ + 1]
            /\ threads' = [threads EXCEPT ![t].pc = "unlock"]
            /\ UNCHANGED m_Mutex
       ELSE /\ m_Mutex' = 0
            /\ threads' = [threads EXCEPT ![t].pc = "idle", ![t].result = "nullptr"]
            /\ UNCHANGED m_QueryPools
    /\ PoolStep

\* the lock guard goes out of scope
Unlock(t) ==
    /\ threads[t].pc = "unlock"
    /\ m_Mutex' = 0
    /\ threads' = [threads EXCEPT ![t].pc = "allocate"]
    /\ UNCHANGED m_QueryPools
    /\ PoolStep

\* m_TimerQueryAllocator.allocate() and the rest of the function
Allocate(t) ==
    LET kind == threads[t].kind
    IN  /\ threads[t].pc = "allocate"
        /\ IF m_QueryPools[kind].allocated < MaxQueryCapacity
           THEN /\ m_QueryPools' =
                       [m_QueryPools EXCEPT ![kind].allocated = @ + 1,
                                            ![kind].early =
                                                @ \/ m_QueryPools[kind].pool = "null"]
                /\ threads' = [threads EXCEPT ![t].pc = "idle", ![t].result = "query"]
           ELSE /\ threads' = [threads EXCEPT ![t].pc = "idle", ![t].result = "nullptr"]
                /\ UNCHANGED m_QueryPools
        /\ UNCHANGED m_Mutex
        /\ PoolStep

\* TimerQuery::~TimerQuery, PipelineStatisticsQuery::~PipelineStatisticsQuery:
\* the index goes back to the allocator
ReleaseQuery(kind) ==
    /\ m_QueryPools[kind].allocated > 0
    /\ m_QueryPools' = [m_QueryPools EXCEPT ![kind].allocated = @ - 1]
    /\ UNCHANGED <<threads, m_Mutex>>
    /\ PoolStep

----------------------------------------------------------------------------
(* Timer queries of the Vulkan device.  A query holds two timestamps of the *)
(* timer query pool; the device makes them available after the commands    *)
(* that write them have run, unless it is lost before.                     *)

Queries == {"queryA", "queryB"}

NewTimerQuery == [started |-> FALSE, resolved |-> FALSE, time |-> 0]

\* round: the parity of the rounds the loop of getTimerQueryTime has made
NoTimerQueryCall == [pc |-> "idle", query |-> "none", round |-> 0]

\* what queryOp keeps of a call: the query as the call found it, what the call
\* returned, whether it asked the device, whether an assertion of it failed,
\* and whether the failed assertion ended the program
NoQueryOp ==
    [kind |-> "none", query |-> "none", before |-> NewTimerQuery, ret |-> FALSE,
     time |-> 0, asked |-> FALSE, assertFailed |-> FALSE, aborted |-> FALSE]

QueryOp(kind, q, ret, time, asked, assertFailed, aborted) ==
    [kind |-> kind, query |-> q, before |-> timerQueries[q], ret |-> ret,
     time |-> time, asked |-> asked, assertFailed |-> assertFailed, aborted |-> aborted]

\* device.getQueryPoolResults without the wait flag, for the two timestamps of q
getQueryPoolResults(dev, q) ==
    IF dev.lost THEN "eErrorDeviceLost"
    ELSE IF dev.available[q] THEN "eSuccess"
    ELSE "eNotReady"

\* float(timestamps[1] - timestamps[0]) * scale, for timestamps that were
\* written: a time that is not zero
ScaledTime(q) == IF q = "queryA" THEN 1 ELSE 2

\* a plausible slip: the resolved query is read from the device again
pollTimerQueryAsksAgain(query, q, dev) ==
    IF ~query.started
    THEN [query |-> query, ret |-> FALSE, asked |-> FALSE]
    ELSE LET res == getQueryPoolResults(dev, q)
         IN  IF res \in {"eNotReady", "eErrorDeviceLost"}
             THEN [query |-> query, ret |-> FALSE, asked |-> TRUE]
             ELSE [query |-> [query EXCEPT !.time = ScaledTime(q), !.resolved = TRUE],
                   ret |-> TRUE, asked |-> TRUE]

\* Device::pollTimerQuery
pollTimerQuery(query, q, dev) ==
    IF ~query.started
    THEN [query |-> query, ret |-> FALSE, asked |-> FALSE]
    ELSE IF query.resolved
    THEN [query |-> query, ret |-> TRUE, asked |-> FALSE]
    ELSE LET res == getQueryPoolResults(dev, q)
         IN  IF res \in {"eNotReady", "eErrorDeviceLost"}
             THEN [query |-> query, ret |-> FALSE, asked |-> TRUE]
             ELSE [query |-> [query EXCEPT !.time = ScaledTime(q), !.resolved = TRUE],
                   ret |-> TRUE, asked |-> TRUE]

\* the application thread is not inside getTimerQueryTime and no assertion
\* has ended the program
QueryCallsEnabled == timerQueryCall.pc = "idle" /\ ~queryOp.aborted

\* a failed assertion ends the program in a build that keeps assertions
\* (abort) and is skipped in a build that drops them
ProgramEnds(q, kind) ==
    /\ queryOp' = QueryOp(kind, q, FALSE, 0, FALSE, TRUE, TRUE)
    /\ UNCHANGED <<CommandListVars, ObjectVars, PoolVars, timerQueries, queryDevice,
                   timerQueryCall>>

\* vulkan CommandList::beginTimerQuery: resetQueryPool makes the two
\* timestamps unavailable again
BeginTimerQuery(q, abort) ==
    LET failed == timerQueries[q].started
        s == endRenderPass(Cur)
    IN  /\ QueryCallsEnabled
        /\ IF failed /\ abort
           THEN ProgramEnds(q, "beginTimerQuery")
           ELSE /\ InstallState(s, Op("beginTimerQuery", q, "none", "none", "none", "none", s))
                /\ timerQueries' = [timerQueries EXCEPT ![q].resolved = FALSE]
                /\ queryDevice' = [queryDevice EXCEPT !.available[q] = FALSE]
                /\ queryOp' = QueryOp("beginTimerQuery", q, FALSE, 0, FALSE, failed, FALSE)
                /\ UNCHANGED <<m_EnableAutomaticBarriers, BindingVars, ObjectVars,
                               PoolVars, timerQueryCall>>

\* vulkan CommandList::endTimerQuery
EndTimerQuery(q, abort) ==
    LET failed == timerQueries[q].started \/ timerQueries[q].resolved
        s == endRenderPass(Cur)
    IN  /\ QueryCallsEnabled
        /\ IF failed /\ abort
           THEN ProgramEnds(q, "endTimerQuery")
           ELSE /\ InstallState(s, Op("endTimerQuery", q, "none", "none", "none", "none", s))
                /\ timerQueries' = [timerQueries EXCEPT ![q].started = TRUE]
                /\ queryOp' = QueryOp("endTimerQuery", q, FALSE, 0, FALSE, failed, FALSE)
                /\ UNCHANGED <<m_EnableAutomaticBarriers, BindingVars, ObjectVars,
                               PoolVars, timerQueryCall, queryDevice>>

\* Device::pollTimerQuery, called by the application
PollTimerQuery(q) ==
    LET r == pollTimerQuery(timerQueries[q], q, queryDevice)
    IN  /\ QueryCallsEnabled
        /\ timerQueries' = [timerQueries EXCEPT ![q] = r.query]
        /\ queryOp' = QueryOp("pollTimerQuery", q, r.ret, 0, r.asked, FALSE, FALSE)
        /\ UNCHANGED <<CommandListVars, ObjectVars, PoolVars, queryDevice, timerQueryCall>>

\* Device::getTimerQueryTime up to its loop: returns 0 for a query that is not
\* started and the time of a resolved one, and enters the loop otherwise
GetTimerQueryTime(q) ==
    /\ QueryCallsEnabled
    /\ IF ~timerQueries[q].started
       THEN /\ queryOp' = QueryOp("getTimerQueryTime", q, TRUE, 0, FALSE, FALSE, FALSE)
            /\ UNCHANGED <<timerQueries, timerQueryCall>>
       ELSE IF timerQueries[q].resolved
       THEN /\ timerQueries' = [timerQueries EXCEPT ![q].started = FALSE]
            /\ queryOp' = QueryOp("getTimerQueryTime", q, TRUE, timerQueries[q].time,
                                  FALSE, FALSE, FALSE)
            /\ UNCHANGED timerQueryCall
       ELSE /\ timerQueryCall' = [pc |-> "polling", query |-> q, round |-> 0]
            /\ queryOp' = QueryOp("getTimerQueryTimeEntersLoop", q, FALSE, 0, FALSE,
                                  FALSE, FALSE)
            /\ UNCHANGED timerQueries
    /\ UNCHANGED <<CommandListVars, ObjectVars, PoolVars, queryDevice>>

\* one round of while(!pollTimerQuery(query)) and, when it ends the loop, the
\* rest of getTimerQueryTime
GetTimerQueryTimePoll ==
    LET q == timerQueryCall.query
        r == pollTimerQuery(timerQueries[q], q, queryDevice)
    IN  /\ timerQueryCall.pc = "polling"
        /\ IF r.ret
           THEN /\ timerQueries' = [timerQueries EXCEPT ![q] =
                                        [r.query EXCEPT !.started = FALSE]]
                /\ timerQueryCall' = NoTimerQueryCall
                /\ queryOp' = QueryOp("getTimerQueryTime", q, TRUE, r.query.time,
                                      r.asked, ~r.query.resolved, FALSE)
           ELSE /\ queryOp' = QueryOp("getTimerQueryTimePolls", q, FALSE, 0, r.asked,
                                      FALSE, FALSE)
                /\ timerQueryCall' = [timerQueryCall EXCEPT !.round = 1 - @]
                /\ UNCHANGED timerQueries
        /\ UNCHANGED <<CommandListVars, ObjectVars, PoolVars, queryDevice>>

\* Device::resetTimerQuery
ResetTimerQuery(q) ==
    /\ QueryCallsEnabled
    /\ timerQueries' = [timerQueries EXCEPT ![q] = NewTimerQuery]
    /\ queryOp' = QueryOp("resetTimerQuery", q, FALSE, 0, FALSE, FALSE, FALSE)
    /\ UNCHANGED <<CommandListVars, ObjectVars, PoolVars, queryDevice, timerQueryCall>>

\* the device has run the commands of an ended query: its timestamps are there
DeviceWritesTimestamps(q) ==
    /\ ~queryDevice.lost
    /\ timerQueries[q].started
    /\ ~queryDevice.available[q]
    /\ queryDevice' = [queryDevice EXCEPT !.available[q] = TRUE]
    /\ UNCHANGED <<CommandListVars, ObjectVars, PoolVars, timerQueries, timerQueryCall,
                   queryOp>>

\* the device is lost, and stays so
DeviceLost ==
    /\ ~queryDevice.lost
    /\ queryDevice' = [queryDevice EXCEPT !.lost = TRUE]
    /\ UNCHANGED <<CommandListVars, ObjectVars, PoolVars, timerQueries, timerQueryCall,
                   queryOp>>

----------------------------------------------------------------------------
(* Several recording contexts on the same resources.  The state records are *)
(* owned by the buffers and shared; each context has its own pending list.  *)
(* A requireBufferState call reads the record and later writes it: the two  *)
(* accesses are separate steps, so that calls of contexts that are not      *)
(* serialized interleave as unsynchronized accesses do.                     *)

Contexts == {1, 2}

NoCall == [pc |-> "idle", res |-> "none", state |-> "none", rec |-> "none",
           interfered |-> FALSE]

\* what a context's most recent requireBufferState call did: stale tells that
\* the state it had read was no longer the stored one when it wrote, same that
\* it required the state that was stored when it wrote
NoRequire == [res |-> "none", state |-> "none", stale |-> FALSE, same |-> FALSE,
              nApp |-> 0, interfered |-> FALSE]

\* atOpen: the stored states the context found when its recording was opened
NewRecorder == [open |-> FALSE, bufferBarriers |-> <<>>, call |-> NoCall, last |-> NoRequire,
                atOpen |-> [b \in Buffers |-> Unknown]]

SingleContextVars ==
    <<backend, tex, m_TextureBarriers, m_BufferBarriers, m_EnableAutomaticBarriers,
      m_BindingStatesDirty, m_CurrentGraphicsState, m_CurrentComputeState,
      m_CurrentMeshletState, m_CurrentRayTracingState,
      renderPassActive, events, lastOp, outstanding, pinnedState, uavHazards, DeviceVars>>

\* a plausible slip: the buffers' records are taken to belong to the
\* recording and start anew with it
OpenRecordingForgetsStates(c) ==
    /\ ~recorders[c].open
    /\ recorders' = [recorders EXCEPT ![c] =
                         [NewRecorder EXCEPT !.open = TRUE,
                                             !.atOpen = [b \in Buffers |-> buf[b].state]]]
    /\ buf' = [b \in Buffers |-> NewBufferState]
    /\ UNCHANGED SingleContextVars

\* a command list is opened for recording: its pending list is empty, the
\* buffers keep the records earlier recordings left
OpenRecording(c) ==
    /\ ~recorders[c].open
    /\ recorders' = [recorders EXCEPT ![c] =
                         [NewRecorder EXCEPT !.open = TRUE,
                                             !.atOpen = [b \in Buffers |-> buf[b].state]]]
    /\ UNCHANGED <<buf, SingleContextVars>>

\* a command list is opened while no other recording is in progress
OpenRecordingSerialized(c) ==
    /\ \A d \in Contexts : ~recorders[d].open
    /\ OpenRecording(c)

\* requireBufferState, first half: the buffer's record is read
RequireBufferStateRead(c, b, state) ==
    /\ recorders[c].open
    /\ recorders[c].call.pc = "idle"
    /\ recorders' = [recorders EXCEPT ![c].call =
                         [pc |-> "read", res |-> b, state |-> state, rec |-> buf[b],
                          interfered |-> FALSE],
                                      ![c].last = NoRequire]
    /\ UNCHANGED <<buf, SingleContextVars>>

\* the number of records pending in the contexts other than c
PendingElsewhere(c) ==
    LET RECURSIVE Sum(_)
        Sum(S) == IF S = {} THEN 0
                  ELSE LET d == CHOOSE x \in S : TRUE
                       IN  Len(recorders[d].bufferBarriers) + Sum(S \ {d})
    IN  Sum(Contexts \ {c})

\* a plausible slip: the record is taken to be new instead of being read
RequireBufferStateWriteFromNew(c) ==
    LET call == recorders[c].call
        b == call.res
        s == Tracker_requireBufferState(
                 [Cur EXCEPT !.buf[b] = NewBufferState, !.bb = recorders[c].bufferBarriers],
                 b, call.state)
    IN  /\ call.pc = "read"
        /\ Len(s.bb) + PendingElsewhere(c) <= MaxPending
        /\ buf' = [buf EXCEPT ![b] = s.buf[b]]
        /\ recorders' =
               [d \in Contexts |->
                   IF d = c
                   THEN [recorders[c] EXCEPT
                            !.bufferBarriers = s.bb,
                            !.call = NoCall,
                            !.last = [res |-> b, state |-> call.state,
                                      stale |-> NewBufferState.state # buf[b].state,
                                      same |-> call.state = buf[b].state,
                                      nApp |-> s.nApp,
                                      interfered |-> call.interfered]]
                   ELSE IF recorders[d].call.pc = "read" /\ recorders[d].call.res = b
                   THEN [recorders[d] EXCEPT !.call.interfered = TRUE]
                   ELSE recorders[d]]
        /\ UNCHANGED SingleContextVars

\* requireBufferState, second half: the tracker's decision is taken on the
\* record as it was read, the record is written and the transition appended
\* to the context's own pending list
RequireBufferStateWrite(c) ==
    LET call == recorders[c].call
        b == call.res
        s == Tracker_requireBufferState(
                 [Cur EXCEPT !.buf[b] = call.rec, !.bb = recorders[c].bufferBarriers],
                 b, call.state)
    IN  /\ call.pc = "read"
        /\ Len(s.bb) + PendingElsewhere(c) <= MaxPending
        /\ buf' = [buf EXCEPT ![b] = s.buf[b]]
        /\ recorders' =
               [d \in Contexts |->
                   IF d = c
                   THEN [recorders[c] EXCEPT
                            !.bufferBarriers = s.bb,
                            !.call = NoCall,
                            !.last = [res |-> b, state |-> call.state,
                                      stale |-> call.rec.state # buf[b].state,
                                      same |-> call.state = buf[b].state,
                                      nApp |-> s.nApp,
                                      interfered |-> call.interfered]]
                   ELSE IF recorders[d].call.pc = "read" /\ recorders[d].call.res = b
                   THEN [recorders[d] EXCEPT !.call.interfered = TRUE]
                   ELSE recorders[d]]
        /\ UNCHANGED SingleContextVars

\* the recording commits its pending barriers and is closed
CloseRecording(c) ==
    /\ recorders[c].open
    /\ recorders[c].call.pc = "idle"
    /\ recorders' = [recorders EXCEPT ![c] = NewRecorder]
    /\ UNCHANGED <<buf, SingleContextVars>>

----------------------------------------------------------------------------
(* Specifications *)

InitWith(backends) ==
    /\ backend \in backends
    /\ tex = [t \in Textures |-> NewTextureState(NumSubresources(t))]
    /\ buf = [b \in Buffers |-> NewBufferState]
    /\ m_TextureBarriers = <<>>
    /\ m_BufferBarriers = <<>>
    /\ m_EnableAutomaticBarriers = TRUE
    /\ m_BindingStatesDirty = TRUE
    /\ m_CurrentGraphicsState = NoGraphicsState
    /\ m_CurrentComputeState = NoComputeState
    /\ m_CurrentMeshletState =
           [bindings |-> <<>>, framebuffer |-> "null", indirectParams |-> "null"]
    /\ m_CurrentRayTracingState = [bindings |-> <<>>]
    /\ renderPassActive = FALSE
    /\ events = <<>>
    /\ lastOp = NoOp
    /\ outstanding = 0
    /\ pinnedState = [r \in Textures \cup Buffers |-> "none"]
    /\ uavHazards = [r \in Textures \cup Buffers |-> 0]
    /\ recorders = [c \in Contexts |-> NewRecorder]
    /\ stagingTexture = NoStagingTexture
    /\ bufferRange = NoBufferRange
    /\ timerQueries = [q \in Queries |-> NewTimerQuery]
    /\ queryDevice = [lost |-> FALSE, available |-> [q \in Queries |-> FALSE]]
    /\ timerQueryCall = NoTimerQueryCall
    /\ queryOp = NoQueryOp
    /\ m_QueryPools = [k \in QueryKinds |-> NoQueryPool]
    /\ m_Mutex = 0
    /\ threads = [t \in Threads |-> NewThread]

\* the subresource sets the tracker is driven with: wildcards, single mips,
\* single slices, one subresource, the whole texture named explicitly
TrackSubresourceSets ==
    {AllSubresources,
     SubresourceSet(0, 1, 0, AllArraySlices),
     SubresourceSet(1, AllMipLevels, 0, AllArraySlices),
     SubresourceSet(0, AllMipLevels, 1, 1),
     SubresourceSet(1, 1, 0, 1),
     SubresourceSet(0, 2, 0, 2)}

TrackStates == {ShaderResource, UnorderedAccess}

TrackInit == InitWith({"vulkan"})

TrackNext ==
    \/ \E sub \in TrackSubresourceSets, st \in TrackStates : SetTextureState("texA", sub, st)
    \/ \E st \in TrackStates : SetPermanentTextureState("texA", st)
    \/ CommitBarriers

\* the state tracker driven through the texture state-setting calls
TrackSpec == TrackInit /\ [][TrackNext]_vars

PinSubresourceSets == {AllSubresources, SubresourceSet(1, 1, 0, 1)}

PinNext ==
    \/ \E sub \in PinSubresourceSets, st \in TrackStates : SetTextureState("texB", sub, st)
    \/ \E st \in TrackStates : SetBufferState("bufA", st)
    \/ \E st \in TrackStates : SetPermanentTextureState("texB", st)
    \/ \E st \in TrackStates : SetPermanentBufferState("bufA", st)
    \/ CommitBarriers

\* pinning of a texture and of a buffer, interleaved with state requests
PinSpec == TrackInit /\ [][PinNext]_vars

CopyInit == InitWith({"vulkan", "d3d12"})

CopyNext ==
    \/ \E mip \in {0, 1} : CopyTextureToStaging("stagingTex", "texB", mip, 0)
    \/ \E mip \in {0, 1} : CopyTextureFromStaging("texB", "stagingTex", mip, 0)
    \/ \E b \in {"bufA", "volatileCB"}, ok \in BOOLEAN : WriteBuffer(b, ok)
    \/ \E b \in {"bufA", "bufB"} : ClearBufferUInt(b)
    \/ \E d \in {"bufA", "bufB"}, r \in {"bufA", "bufB"} : CopyBuffer(d, r)
    \/ \E b \in {"bufA", "stagingBuf"} : SetBufferState(b, ShaderResource)
    \/ SetTextureState("texB", AllSubresources, ShaderResource)
    \/ \E b \in {"bufA", "stagingBuf"} : SetPermanentBufferState(b, ShaderResource)
    \/ SetPermanentTextureState("texB", ShaderResource)
    \/ \E e \in BOOLEAN : SetEnableAutomaticBarriers(e)
    \/ CommitBarriers

\* the copy and clear commands of both backends
CopySpec == CopyInit /\ [][CopyNext]_vars

\* seeding of stored states and discarding of pending records
SeedNext ==
    \/ \E sub \in PinSubresourceSets, st \in TrackStates : SetTextureState("texB", sub, st)
    \/ SetBufferState("bufA", ShaderResource)
    \/ \E sub \in PinSubresourceSets : BeginTrackingTextureState("texB", sub, UnorderedAccess)
    \/ \E st \in TrackStates : BeginTrackingBufferState("bufA", st)
    \/ ClearBarriers
    \/ CommitBarriers

SeedSpec == TrackInit /\ [][SeedNext]_vars

\* UAV hazard barriers on a texture and a buffer, seeded in UnorderedAccess
UavNext ==
    \/ \E st \in TrackStates : SetTextureState("texB", AllSubresources, st)
    \/ SetTextureState("texB", SubresourceSet(1, 1, 0, 1), UnorderedAccess)
    \/ \E st \in TrackStates : SetBufferState("bufA", st)
    \/ \E e \in BOOLEAN : SetEnableUavBarriersForTexture("texB", e)
    \/ \E e \in BOOLEAN : SetEnableUavBarriersForBuffer("bufA", e)
    \/ BeginTrackingTextureState("texB", AllSubresources, UnorderedAccess)
    \/ BeginTrackingBufferState("bufA", UnorderedAccess)
    \/ CommitBarriers

UavSpec == TrackInit /\ [][UavNext]_vars

\* subresource sets that reach beyond the texture: a count past the last mip
\* or slice, a base past the last mip, a wildcard count on a base other than 0;
\* and two sets inside it
BoundsSubresourceSets ==
    {AllSubresources,
     SubresourceSet(1, 1, 1, 1),
     SubresourceSet(1, 2, 0, AllArraySlices),
     SubresourceSet(0, 1, 1, 2),
     SubresourceSet(3, 1, 0, 1),
     SubresourceSet(2, 1, 0, 1),
     SubresourceSet(1, AllMipLevels, 0, 1),
     SubresourceSet(0, 1, 1, AllArraySlices)}

BoundsNext ==
    \/ \E sub \in BoundsSubresourceSets : SetTextureState("texA", sub, ShaderResource)
    \/ SetTextureState("texA", AllSubresources, UnorderedAccess)
    \/ CommitBarriers

\* the state tracker driven with subresource sets at and beyond the bounds
BoundsSpec == TrackInit /\ [][BoundsNext]_vars

\* state requests that also pass the Unknown sentinel as the desired state
UnknownNext ==
    \/ \E sub \in PinSubresourceSets, st \in {ShaderResource, Unknown} :
           SetTextureState("texB", sub, st)
    \/ \E st \in {ShaderResource, Unknown} : SetBufferState("bufA", st)
    \/ BeginTrackingTextureState("texB", SubresourceSet(1, 1, 0, 1), UnorderedAccess)
    \/ CommitBarriers

UnknownSpec == TrackInit /\ [][UnknownNext]_vars

RaceStates == {ShaderResource, UnorderedAccess}

\* two contexts recording at the same time on the same buffers
RaceNext ==
    \/ \E c \in Contexts : OpenRecording(c)
    \/ \E c \in Contexts, st \in RaceStates : RequireBufferStateRead(c, "bufA", st)
    \/ RequireBufferStateRead(2, "bufB", ShaderResource)
    \/ \E c \in Contexts : RequireBufferStateWrite(c)
    \/ \E c \in Contexts : CloseRecording(c)

RaceSpec == TrackInit /\ [][RaceNext]_vars

\* recordings that are serialized: one is closed before the next is opened
SessionNext ==
    \/ \E c \in Contexts : OpenRecordingSerialized(c)
    \/ \E c \in Contexts, b \in {"bufA", "bufB"}, st \in RaceStates :
           RequireBufferStateRead(c, b, st)
    \/ \E c \in Contexts : RequireBufferStateWrite(c)
    \/ \E c \in Contexts : CloseRecording(c)

SessionSpec == TrackInit /\ [][SessionNext]_vars

\* draws, dispatches, meshlet draws and ray dispatches between invalidations
DirtyNext ==
    \/ SetGraphicsState("gsPair")
    \/ SetComputeState("csUav")
    \/ \E ip \in {"null", "bufI"} :
           SetMeshletState([bindings |-> <<"bsSrv">>, framebuffer |-> "fbColor",
                            indirectParams |-> ip])
    \/ \E bs \in {"bsAs", "bsSrv"} : SetRayTracingState([bindings |-> <<bs, "bsBindless">>])
    \/ InvalidateBindingStates
    \/ \E e \in BOOLEAN : SetEnableAutomaticBarriers(e)

DirtySpec == TrackInit /\ [][DirtyNext]_vars

QueryNext ==
    \/ \E q \in Queries, abort \in BOOLEAN : BeginTimerQuery(q, abort)
    \/ \E q \in Queries, abort \in BOOLEAN : EndTimerQuery(q, abort)
    \/ \E q \in Queries : PollTimerQuery(q)
    \/ \E q \in Queries : GetTimerQueryTime(q)
    \/ GetTimerQueryTimePoll
    \/ \E q \in Queries : ResetTimerQuery(q)
    \/ \E q \in Queries : DeviceWritesTimestamps(q)
    \/ DeviceLost

QuerySpec == TrackInit /\ [][QueryNext]_vars

\* the loop of getTimerQueryTime keeps running, and a device that is not lost
\* finishes the commands of every ended query
QueryFairSpec ==
    /\ QuerySpec
    /\ WF_vars(GetTimerQueryTimePoll)
    /\ \A q \in Queries : WF_vars(DeviceWritesTimestamps(q))

PoolNext ==
    \/ \E t \in Threads, kind \in QueryKinds : CallCreateQuery(t, kind)
    \/ \E t \in Threads, stale \in BOOLEAN : FirstCheck(t, stale)
    \/ \E t \in Threads : Lock(t)
    \/ \E t \in Threads : SecondCheck(t)
    \/ \E t \in Threads, ok \in BOOLEAN : CreateQueryPool(t, ok)
    \/ \E t \in Threads : Unlock(t)
    \/ \E t \in Threads : Allocate(t)
    \/ \E kind \in QueryKinds : ReleaseQuery(kind)

PoolSpec == TrackInit /\ [][PoolNext]_vars

RangeNext ==
    \E byteOffset \in RangeValues, byteSize \in RangeValues, size \in 0..MaxByteSize :
        ResolveBufferRange(BufferRange(byteOffset, byteSize), [byteSize |-> size])

RangeSpec == TrackInit /\ [][RangeNext]_vars

StagingNext ==
    \/ \E desc \in StagingDescs, ok \in BOOLEAN : CreateStagingTexture(desc, ok)
    \/ \E mip \in 0..(MaxStagingMips - 1), slice \in 0..(MaxStagingSlices - 1) :
           GetCopyableFootprint(mip, slice)

\* staging textures of every descriptor are created and their footprints read
StagingSpec == TrackInit /\ [][StagingNext]_vars

BindingSets == {"null", "bsBindless", "bsSrv", "bsUav", "bsCb", "bsTexUav", "bsRaw",
                "bsStruct", "bsAs"}

BindingNext ==
    \/ \E bs \in BindingSets : SetResourceStatesForBindingSet(bs)
    \/ CommitBarriers

\* binding sets of every binding type passed to setResourceStatesForBindingSet
BindingSpec == TrackInit /\ [][BindingNext]_vars

\* draws and dispatches that rebind the same and different binding sets
DiffNext ==
    \/ \E gs \in {"gsSrv", "gsPair", "gsSwap", "gsUav"} : SetGraphicsState(gs)
    \/ \E cs \in {"csUav", "csUavPair"} : SetComputeState(cs)
    \/ InvalidateBindingStates
    \/ SetTextureState("texB", SubresourceSet(1, 1, 0, 1), CopyDest)
    \/ CommitBarriers

DiffSpec == TrackInit /\ [][DiffNext]_vars

Next ==
    \/ \E gs \in {"gsSrv", "gsUav"} : SetGraphicsState(gs)
    \/ SetComputeState("csUav")
    \/ ClearState
    \/ CopyTextureFromStaging("texB", "stagingTex", 1, 0)
    \/ SetTextureState("texB", SubresourceSet(0, 1, 0, 1), CopyDest)
    \/ SetBufferState("bufB", CopyDest)
    \/ SetPermanentBufferState("bufB", IndexBuffer)
    \/ CommitBarriers

Init == InitWith({"vulkan"})

\* a Vulkan command list recording draws, dispatches and uploads
Spec == Init /\ [][Next]_vars

----------------------------------------------------------------------------
(* Properties *)

\* the last native call the handler made
LastEvent == events[Len(events)]

\* the handler recorded its copy or clear command `kind` last, with both
\* pending lists empty and its operands tracked in srcState and dstState
CommandAfterBarriers(kind, srcState, dstState) ==
    /\ events # <<>>
    /\ LastEvent.kind = kind
    /\ LastEvent.pendingEmpty
    /\ LastEvent.srcState = srcState
    /\ LastEvent.dstState = dstState
    /\ \A i \in 1..(Len(events) - 1) :
           events[i].kind \in {"endRenderPass", "nativeBarrier", "clearBarriers"}
    /\ lastOp.nOut >= lastOp.nApp

\* C1: with automatic barriers on, every copy or clear command is recorded
\* after its operands' states were required and the barriers committed: when
\* the command is recorded the pending lists are empty, the source is tracked
\* in CopySource and the destination in CopyDest (UnorderedAccess for
\* clearBufferUInt), for distinct operands that are not pinned.
C1_CopyAfterBarriers ==
    m_EnableAutomaticBarriers =>
        /\ (/\ lastOp.kind = "copyTextureToStaging"
            /\ ~tex[lastOp.res[2]].permanentTransition
            /\ ~buf[StagingBuffer(lastOp.res[1])].permanentTransition)
               => CommandAfterBarriers("copyImageToBuffer", CopySource, CopyDest)
        /\ (/\ lastOp.kind = "copyTextureFromStaging"
            /\ ~tex[lastOp.res[1]].permanentTransition
            /\ ~buf[StagingBuffer(lastOp.res[2])].permanentTransition)
               => CommandAfterBarriers("copyBufferToImage", CopySource, CopyDest)
        /\ (/\ lastOp.kind = "copyBuffer"
            /\ lastOp.res[1] # lastOp.res[2]
            /\ ~buf[lastOp.res[1]].permanentTransition
            /\ ~buf[lastOp.res[2]].permanentTransition)
               => CommandAfterBarriers("CopyBufferRegion", CopySource, CopyDest)
        /\ (/\ lastOp.kind = "writeBuffer"
            /\ lastOp.state
            /\ ~BufDesc(lastOp.res).isVolatile
            /\ ~buf[lastOp.res].permanentTransition)
               => CommandAfterBarriers("CopyBufferRegion", "upload", CopyDest)
        /\ (/\ lastOp.kind = "clearBufferUInt"
            /\ BufDesc(lastOp.res).canHaveUAVs
            /\ ~buf[lastOp.res].permanentTransition)
               => CommandAfterBarriers("ClearUnorderedAccessViewUint", "none",
                                       UnorderedAccess)

\* C1 witness: a texture-to-staging copy that had to move both operands and
\* flushed two barriers of its own before the copy command
C1_Witness ==
    /\ m_EnableAutomaticBarriers
    /\ lastOp.kind = "copyTextureToStaging"
    /\ lastOp.nApp = 2
    /\ lastOp.nOut >= 2
    /\ LastEvent.kind = "copyImageToBuffer"
    /\ LastEvent.srcState = CopySource
    /\ LastEvent.dstState = CopyDest

\* the elements of a sequence
Range(seq) == {seq[i] : i \in DOMAIN seq}

\* a subresource set names a range the texture has: a wildcard count starts at
\* base 0, an explicit count starts inside the texture
Resolvable(sub, desc) ==
    /\ sub.baseMipLevel \in 0..(desc.mipLevels - 1)
    /\ sub.numMipLevels = AllMipLevels => sub.baseMipLevel = 0
    /\ sub.numMipLevels = AllMipLevels \/ sub.numMipLevels >= 1
    /\ IsArrayDimension(desc.dimension) =>
           /\ sub.baseArraySlice \in 0..(desc.arraySize - 1)
           /\ sub.numArraySlices = AllArraySlices => sub.baseArraySlice = 0
           /\ sub.numArraySlices = AllArraySlices \/ sub.numArraySlices >= 1

\* the (mip, slice) pairs of the texture that a resolvable subresource set
\* names, as pairs of numbers and without reference to resolve()
Requested(sub, desc) ==
    {ms \in (0..(desc.mipLevels - 1)) \X (0..(desc.arraySize - 1)) :
        /\ ms[1] >= sub.baseMipLevel
        /\ sub.numMipLevels = AllMipLevels \/ ms[1] < sub.baseMipLevel + sub.numMipLevels
        /\ IsArrayDimension(desc.dimension) =>
               /\ ms[2] >= sub.baseArraySlice
               /\ \/ sub.numArraySlices = AllArraySlices
                  \/ ms[2] < sub.baseArraySlice + sub.numArraySlices}

\* the texture is not pinned and every subresource named by sub is tracked in state
TextureHolds(t, sub, state) ==
    tex[t].permanentTransition \/
        \A ms \in Requested(sub, TexDesc(t)) :
            tex[t].subresourceStates[ms[1] * TexDesc(t).arraySize + ms[2] + 1] = state

\* the buffer is not pinned and is tracked in state
BufferHolds(b, state) ==
    b = "null" \/ buf[b].permanentTransition \/ buf[b].state = state

\* every resource bound through a non-bindless binding set holds the state its
\* binding type requires
BindingSetsHold(bindingSets) ==
    \A bs \in Range(bindingSets) :
        ~BindingSetInfo(bs).bindless =>
            \A b \in Range(BindingSetInfo(bs).bindings) :
                /\ b.type = "Texture_SRV"
                       => TextureHolds(b.resourceHandle, b.subresources, ShaderResource)
                /\ b.type = "Texture_UAV"
                       => TextureHolds(b.resourceHandle, b.subresources, UnorderedAccess)
                /\ b.type \in {"TypedBuffer_SRV", "StructuredBuffer_SRV", "RawBuffer_SRV"}
                       => BufferHolds(b.resourceHandle, ShaderResource)
                /\ b.type \in {"TypedBuffer_UAV", "StructuredBuffer_UAV", "RawBuffer_UAV"}
                       => BufferHolds(b.resourceHandle, UnorderedAccess)
                /\ b.type = "ConstantBuffer"
                       => BufferHolds(b.resourceHandle, ConstantBuffer)

\* C2: right after insertGraphicsResourceBarriers(state) or
\* insertComputeResourceBarriers(state) and the commit that follows it, every
\* non-pinned resource the state references (binding sets, index, vertex and
\* indirect buffers, framebuffer attachments) is tracked in the state its
\* binding requires, whatever copies and explicit state changes came before.
C2_NoRequiredTransitionDropped ==
    /\ (lastOp.kind = "setGraphicsState" /\ m_EnableAutomaticBarriers) =>
           LET state == GraphicsStateDesc(lastOp.res)
           IN  /\ BindingSetsHold(state.bindings)
               /\ BufferHolds(state.indexBuffer, IndexBuffer)
               /\ \A vb \in Range(state.vertexBuffers) : BufferHolds(vb, VertexBuffer)
               /\ BufferHolds(state.indirectParams, IndirectArgument)
               /\ BufferHolds(state.indirectCountParams, IndirectArgument)
               /\ \A a \in Range(FramebufferDesc(state.framebuffer).colorAttachments) :
                      TextureHolds(a.texture, a.subresources, RenderTarget)
    /\ (lastOp.kind = "setComputeState" /\ m_EnableAutomaticBarriers) =>
           LET state == ComputeStateDesc(lastOp.res)
           IN  /\ BindingSetsHold(state.bindings)
               /\ BufferHolds(state.indirectParams, IndirectArgument)

WholeTexture(sub, desc) ==
    /\ Resolvable(sub, desc)
    /\ Requested(sub, desc) = (0..(desc.mipLevels - 1)) \X (0..(desc.arraySize - 1))

\* the last call was requireTextureState(t, wholeTexture, S), S other than
\* UnorderedAccess, and so was the call before it, with the same arguments
TwiceInARow ==
    /\ lastOp.kind = "setTextureState"
    /\ lastOp.after.kind = "setTextureState"
    /\ WholeTexture(lastOp.sub, TexDesc(lastOp.res))
    /\ lastOp.state # UnorderedAccess

\* C4 as stated: Idempotence.  For S other than UnorderedAccess, of two calls
\* requireTextureState(t, wholeTexture, S) in a row the first appends exactly
\* one transition and the second none.
C4_IdempotenceAsStated ==
    TwiceInARow => lastOp.after.nApp = 1 /\ lastOp.nApp = 0

\* C4: Idempotence.  For S other than UnorderedAccess, of two calls
\* requireTextureState(t, wholeTexture, S) in a row the second appends no
\* transition; the first appends exactly one when t is not pinned and all its
\* subresources are stored in one state other than S, none when t is pinned
\* or already entirely in S, and at least one when the stored states differ
\* between subresources.
C4_Idempotence ==
    TwiceInARow =>
        /\ lastOp.nApp = 0
        /\ (~lastOp.after.prior.pinned
            /\ lastOp.after.prior.state \notin {"mixed", lastOp.state})
               => lastOp.after.nApp = 1
        /\ (lastOp.after.prior.pinned \/ lastOp.after.prior.state = lastOp.state)
               => lastOp.after.nApp = 0
        /\ (~lastOp.after.prior.pinned /\ lastOp.after.prior.state = "mixed")
               => lastOp.after.nApp >= 1

\* C4 witness: the first of two whole-texture calls moved the texture out of
\* one shared state with a single record, the second appended nothing
C4_Witness ==
    /\ TwiceInARow
    /\ ~lastOp.after.prior.pinned
    /\ lastOp.after.prior.state = UnorderedAccess
    /\ lastOp.after.nApp = 1
    /\ lastOp.nApp = 0
    /\ m_TextureBarriers # <<>>
    /\ m_TextureBarriers[Len(m_TextureBarriers)].entireTexture

\* every subresource of the texture / the buffer is stored in state
StoredEverywhere(r, state) ==
    IF r \in Textures
    THEN \A i \in DOMAIN tex[r].subresourceStates : tex[r].subresourceStates[i] = state
    ELSE buf[r].state = state

\* C5: Pinning is a silent no-op.  Once a resource has been pinned in state P,
\* every later requireTextureState / requireBufferState on it, with any state,
\* leaves every subresource stored in P, appends no transition record and
\* raises no diagnostic.
C5_PinnedIsNoOp ==
    (/\ lastOp.kind \in {"setTextureState", "setBufferState"}
     /\ pinnedState[lastOp.res] # "none") =>
        /\ StoredEverywhere(lastOp.res, pinnedState[lastOp.res])
        /\ lastOp.nApp = 0
        /\ lastOp.diag = 0

\* C5 witness: a state other than the pinned one was required on part of a
\* pinned texture
C5_Witness ==
    /\ lastOp.kind = "setTextureState"
    /\ pinnedState[lastOp.res] = UnorderedAccess
    /\ lastOp.state = ShaderResource
    /\ lastOp.sub = SubresourceSet(1, 1, 0, 1)
    /\ lastOp.nApp = 0
    /\ StoredEverywhere(lastOp.res, UnorderedAccess)

\* the resource's record is pinned
Pinned(r) ==
    IF r \in Textures THEN tex[r].permanentTransition ELSE buf[r].permanentTransition

\* the newest pending record of the resource's kind is {before -> after} on r,
\* for a texture on the whole of it
NewestRecordIs(r, before, after) ==
    IF r \in Textures
    THEN /\ m_TextureBarriers # <<>>
         /\ m_TextureBarriers[Len(m_TextureBarriers)] =
                TextureBarrier(r, TRUE, 0, 0, before, after)
    ELSE /\ m_BufferBarriers # <<>>
         /\ m_BufferBarriers[Len(m_BufferBarriers)] = BufferBarrier(r, before, after)

SetPermanentCall ==
    lastOp.kind \in {"setPermanentTextureState", "setPermanentBufferState"}

NothingPending == m_TextureBarriers = <<>> /\ m_BufferBarriers = <<>>

\* the positions of the native barrier calls among the handler's native calls
NativeBarrierCalls == {i \in DOMAIN events : events[i].kind = "nativeBarrier"}

\* C7: commitBarriers() with both pending lists empty is a no-op: the render
\* pass in flight stays active, no native call is made and no tracked state
\* changes.
C7_EmptyCommitIsNoOp ==
    [][(lastOp'.kind = "commitBarriers" /\ NothingPending) =>
           /\ renderPassActive' = renderPassActive
           /\ events' = <<>>
           /\ lastOp'.nOut = 0
           /\ UNCHANGED <<tex, buf, m_TextureBarriers, m_BufferBarriers, outstanding>>]_vars

\* C7 witness: commitBarriers() found nothing pending inside a render pass
C7_Witness ==
    /\ lastOp.kind = "commitBarriers"
    /\ lastOp.prior.tb = <<>>
    /\ lastOp.prior.bb = <<>>
    /\ events = <<>>
    /\ renderPassActive

\* C8: commitBarriers() with something pending ends the render pass first,
\* then submits the native barriers, then clears the pending lists; no native
\* barrier is submitted while a render pass is active, by any handler.
C8_CommitOrder ==
    /\ \A i \in NativeBarrierCalls : ~events[i].inRenderPass
    /\ (/\ lastOp.kind = "commitBarriers"
        /\ (lastOp.prior.tb # <<>> \/ lastOp.prior.bb # <<>>)) =>
           /\ Len(events) >= 3
           /\ events[1].kind = "endRenderPass"
           /\ events[Len(events)].kind = "clearBarriers"
           /\ NativeBarrierCalls = 2..(Len(events) - 1)
           /\ ~renderPassActive
           /\ NothingPending

\* C8 witness: a commit that had to end a render pass in flight before it
\* submitted its barriers
C8_Witness ==
    /\ lastOp.kind = "commitBarriers"
    /\ Len(events) >= 3
    /\ events[1].kind = "endRenderPass"
    /\ events[1].wasActive
    /\ events[2].kind = "nativeBarrier"
    /\ ~events[2].inRenderPass

\* C9: a commit with a non-empty pending list submits all its barriers,
\* texture and buffer records together, in exactly one native barrier call.
C9_OneNativeCallPerCommit ==
    (lastOp.kind = "commitBarriers"
     /\ (lastOp.prior.tb # <<>> \/ lastOp.prior.bb # <<>>)) =>
        Cardinality(NativeBarrierCalls) = 1

\* the image / buffer barriers the handler submitted, over all its native
\* barrier calls, in order
RECURSIVE SubmittedImageBarriers(_)
SubmittedImageBarriers(ev) ==
    IF ev = <<>>
    THEN <<>>
    ELSE (IF Head(ev).kind = "nativeBarrier" THEN Head(ev).imageBarriers ELSE <<>>)
             \o SubmittedImageBarriers(Tail(ev))

RECURSIVE SubmittedBufferBarriers(_)
SubmittedBufferBarriers(ev) ==
    IF ev = <<>>
    THEN <<>>
    ELSE (IF Head(ev).kind = "nativeBarrier" THEN Head(ev).bufferBarriers ELSE <<>>)
             \o SubmittedBufferBarriers(Tail(ev))

\* C10: every transition record appended to the pending lists becomes exactly
\* one native barrier and is submitted by exactly one commit: the records
\* still pending are the records appended and not yet submitted, and a commit
\* submits one barrier per record it found, for that record's resource and
\* states, and leaves nothing pending.
C10_EachRecordOnce ==
    /\ outstanding = Len(m_TextureBarriers) + Len(m_BufferBarriers)
    /\ lastOp.kind = "commitBarriers" =>
           LET images == SubmittedImageBarriers(events)
               buffers == SubmittedBufferBarriers(events)
           IN  /\ NothingPending
               /\ Len(images) = Len(lastOp.prior.tb)
               /\ \A i \in DOMAIN images :
                      /\ images[i].image = lastOp.prior.tb[i].texture
                      /\ images[i].newLayout = lastOp.prior.tb[i].stateAfter
                      /\ lastOp.prior.tb[i].stateBefore # Unknown
                             => images[i].oldLayout = lastOp.prior.tb[i].stateBefore
               /\ Len(buffers) = Len(lastOp.prior.bb)
               /\ \A i \in DOMAIN buffers :
                      /\ buffers[i].buffer = lastOp.prior.bb[i].buffer
                      /\ buffers[i].srcAccess = lastOp.prior.bb[i].stateBefore
                      /\ buffers[i].dstAccess = lastOp.prior.bb[i].stateAfter

\* C10 witness: a commit that found one texture record and one buffer record
\* and submitted one barrier for each
C10_Witness ==
    /\ lastOp.kind = "commitBarriers"
    /\ Len(lastOp.prior.tb) = 1
    /\ Len(lastOp.prior.bb) = 1
    /\ lastOp.nOut = 2
    /\ outstanding = 0
    /\ NothingPending

\* C11: the pending lists are empty when a recording starts and right after
\* every commitBarriers() returns, whether the application called it or a
\* handler did as its last state-tracking step: anyBarriers() is false there.
C11_PendingEmptyAfterCommit ==
    lastOp.kind \in {"none", "commitBarriers", "setGraphicsState", "setComputeState",
                     "copyTextureFromStaging"}
        => ~anyBarriers(Cur)

\* C11 witness: a commit that found only texture records pending and left
\* nothing behind
C11_Witness ==
    /\ lastOp.kind = "commitBarriers"
    /\ lastOp.prior.tb # <<>>
    /\ lastOp.prior.bb = <<>>
    /\ lastOp.nOut = Len(lastOp.prior.tb)
    /\ ~anyBarriers(Cur)

\* C12: beginTrackingTextureState(t, R, S) and beginTrackingBufferState(b, S)
\* store S for the named subresources (or the buffer) and append no
\* transition record: both pending lists are as the call found them, whatever
\* the stored state was; nothing else of the tracked state changes.
C12_BeginTrackingSeedsOnly ==
    [][/\ (lastOp'.kind = "beginTrackingTextureState") =>
              /\ UNCHANGED <<m_TextureBarriers, m_BufferBarriers, buf, outstanding>>
              /\ events' = <<>>
              /\ \A t \in Textures \ {lastOp'.res} : tex'[t] = tex[t]
              /\ LET t == lastOp'.res
                     desc == TexDesc(t)
                 IN  \A mip \in 0..(desc.mipLevels - 1), slice \in 0..(desc.arraySize - 1) :
                         tex'[t].subresourceStates[CalcSubresource(mip, slice, desc)] =
                             IF <<mip, slice>> \in Requested(lastOp'.sub, desc)
                             THEN lastOp'.state
                             ELSE tex[t].subresourceStates[CalcSubresource(mip, slice, desc)]
       /\ (lastOp'.kind = "beginTrackingBufferState") =>
              /\ UNCHANGED <<m_TextureBarriers, m_BufferBarriers, tex, outstanding>>
              /\ events' = <<>>
              /\ buf'[lastOp'.res].state = lastOp'.state
              /\ \A b \in Buffers \ {lastOp'.res} : buf'[b] = buf[b]]_vars

\* C12 witness: a buffer and one mip of a texture were seeded with a state
\* they were not stored in, while records were pending
C12_Witness ==
    /\ lastOp.kind \in {"beginTrackingTextureState", "beginTrackingBufferState"}
    /\ lastOp.prior.state # lastOp.state
    /\ lastOp.nApp = 0
    /\ m_TextureBarriers # <<>>
    /\ m_BufferBarriers # <<>>
    /\ buf["bufA"].state = UnorderedAccess
    /\ tex["texB"].subresourceStates[2] = UnorderedAccess
    /\ tex["texB"].subresourceStates[1] = ShaderResource

\* C13: clearBarriers() leaves both pending lists empty and makes no native
\* barrier call; the records it discarded are never submitted: a commit right
\* after it submits nothing, and the records pending at any time are exactly
\* those appended and neither submitted nor discarded.
C13_ClearBarriersDiscards ==
    /\ lastOp.kind = "clearBarriers" =>
           /\ NothingPending
           /\ events = <<>>
           /\ lastOp.nOut = Len(lastOp.prior.tb) + Len(lastOp.prior.bb)
    /\ (lastOp.kind = "commitBarriers" /\ lastOp.after.kind = "clearBarriers") =>
           /\ events = <<>>
           /\ lastOp.nOut = 0
           /\ NothingPending
    /\ lastOp.kind \in {"clearBarriers", "commitBarriers"} => outstanding = 0

\* C13 witness: a texture record and a buffer record were pending when
\* clearBarriers() was called, and the commit that followed made no native call
C13_Witness ==
    /\ lastOp.kind = "commitBarriers"
    /\ lastOp.after.kind = "clearBarriers"
    /\ lastOp.after.prior.tb # <<>>
    /\ lastOp.after.prior.bb # <<>>
    /\ lastOp.after.nOut = 2
    /\ events = <<>>

\* the last call was requireState(r, UnorderedAccess) on a non-pinned resource
\* stored in UnorderedAccess throughout
UavOnUav ==
    /\ lastOp.kind \in {"setTextureState", "setBufferState"}
    /\ lastOp.state = UnorderedAccess
    /\ lastOp.prior.state = UnorderedAccess
    /\ ~lastOp.prior.pinned

\* firstUavBarrierPlaced of the resource's record
FirstUavBarrierPlaced(r) ==
    IF r \in Textures THEN tex[r].firstUavBarrierPlaced ELSE buf[r].firstUavBarrierPlaced

\* the newest pending record of the resource's kind is a same-state
\* UnorderedAccess record on r
NewestIsUavHazard(r) ==
    IF r \in Textures
    THEN /\ m_TextureBarriers # <<>>
         /\ LET rec == m_TextureBarriers[Len(m_TextureBarriers)]
            IN  /\ rec.texture = r
                /\ rec.stateBefore = UnorderedAccess
                /\ rec.stateAfter = UnorderedAccess
    ELSE /\ m_BufferBarriers # <<>>
         /\ m_BufferBarriers[Len(m_BufferBarriers)] =
                BufferBarrier(r, UnorderedAccess, UnorderedAccess)

\* C14: UAV hazard rule.  requireState(r, UnorderedAccess) on a non-pinned
\* resource already stored in UnorderedAccess appends one same-state record
\* (UnorderedAccess -> UnorderedAccess) and sets firstUavBarrierPlaced when
\* enableUavBarriers was true and firstUavBarrierPlaced was false; in every
\* other case it appends nothing and leaves the flag as it was.
C14_UavHazardRule ==
    UavOnUav =>
        IF lastOp.prior.enable /\ ~lastOp.prior.first
        THEN /\ lastOp.nApp = 1
             /\ NewestIsUavHazard(lastOp.res)
             /\ FirstUavBarrierPlaced(lastOp.res)
             /\ StoredEverywhere(lastOp.res, UnorderedAccess)
        ELSE /\ lastOp.nApp = 0
             /\ FirstUavBarrierPlaced(lastOp.res) = lastOp.prior.first
             /\ StoredEverywhere(lastOp.res, UnorderedAccess)

\* C14 witness: one mip of a texture seeded in UnorderedAccess was required
\* in UnorderedAccess and got the hazard record
C14_Witness ==
    /\ UavOnUav
    /\ lastOp.res = "texB"
    /\ lastOp.sub = SubresourceSet(1, 1, 0, 1)
    /\ lastOp.prior.enable
    /\ ~lastOp.prior.first
    /\ lastOp.nApp = 1
    /\ tex["texB"].firstUavBarrierPlaced
    /\ ~m_TextureBarriers[Len(m_TextureBarriers)].entireTexture

\* enableUavBarriers of the resource's record
EnableUavBarriers(r) ==
    IF r \in Textures THEN tex[r].enableUavBarriers ELSE buf[r].enableUavBarriers

\* the records the last requireState call appended: the newest nApp records of
\* the pending list of the resource's kind
AppendedByLastCall ==
    LET list == IF lastOp.res \in Textures THEN m_TextureBarriers ELSE m_BufferBarriers
    IN  {list[i] : i \in (Len(list) - lastOp.nApp + 1)..Len(list)}

\* C15: setEnableUavBarriersForTexture/Buffer(r, e) stores e, and while UAV
\* barriers are disabled for r no requireState call appends a same-state
\* UnorderedAccess record for it; a change of state into or out of
\* UnorderedAccess is still recorded.
C15_DisabledUavBarriers ==
    /\ lastOp.kind \in {"setEnableUavBarriersForTexture", "setEnableUavBarriersForBuffer"} =>
           /\ EnableUavBarriers(lastOp.res) = lastOp.state
           /\ lastOp.nApp = 0
    /\ (/\ lastOp.kind \in {"setTextureState", "setBufferState"}
        /\ ~lastOp.prior.enable
        /\ ~lastOp.prior.pinned) =>
           /\ ~EnableUavBarriers(lastOp.res)
           /\ \A rec \in AppendedByLastCall : rec.stateBefore # rec.stateAfter
           /\ lastOp.prior.state = lastOp.state => lastOp.nApp = 0
           /\ lastOp.prior.state \notin {"mixed", lastOp.state} =>
                  /\ lastOp.nApp >= 1
                  /\ \A rec \in AppendedByLastCall :
                         /\ rec.stateBefore = lastOp.prior.state
                         /\ rec.stateAfter = lastOp.state

\* C15 witness: with UAV barriers disabled for a buffer stored in
\* UnorderedAccess whose hazard record was not placed yet, a request for
\* UnorderedAccess appended nothing
C15_Witness ==
    /\ lastOp.kind = "setBufferState"
    /\ lastOp.state = UnorderedAccess
    /\ lastOp.prior.state = UnorderedAccess
    /\ ~lastOp.prior.enable
    /\ ~lastOp.prior.first
    /\ lastOp.nApp = 0
    /\ ~buf["bufA"].firstUavBarrierPlaced

\* C16: between two changes of a resource's stored state at most one
\* same-state UnorderedAccess record is appended for it, however often
\* requireState(r, UnorderedAccess) is repeated, and firstUavBarrierPlaced
\* goes from true to false only in a requireState call on that resource for a
\* state other than UnorderedAccess that appended a transition to it.
C16_OneHazardPerStateChange ==
    /\ [](\A r \in Textures \cup Buffers : uavHazards[r] <= 1)
    /\ [][\A r \in Textures \cup Buffers :
              (FirstUavBarrierPlaced(r) /\ ~FirstUavBarrierPlaced(r)') =>
                  /\ lastOp'.kind \in {"setTextureState", "setBufferState"}
                  /\ lastOp'.res = r
                  /\ lastOp'.state # UnorderedAccess
                  /\ lastOp'.nApp >= 1
                  /\ uavHazards'[r] = 0]_vars

\* C16 witness: the hazard record of a buffer was placed and the request for
\* UnorderedAccess was repeated with UAV barriers enabled: nothing was appended
C16_Witness ==
    /\ UavOnUav
    /\ lastOp.res = "bufA"
    /\ lastOp.prior.enable
    /\ lastOp.prior.first
    /\ lastOp.nApp = 0
    /\ uavHazards["bufA"] = 1

\* the last call ran insertGraphicsResourceBarriers or
\* insertComputeResourceBarriers
InsertedResourceBarriers ==
    /\ lastOp.kind \in {"setGraphicsState", "setComputeState"}
    /\ m_EnableAutomaticBarriers

\* the binding sets of the state the last call set
NewBindings ==
    IF lastOp.kind = "setGraphicsState"
    THEN GraphicsStateDesc(lastOp.res).bindings
    ELSE ComputeStateDesc(lastOp.res).bindings

\* C17: every insert*ResourceBarriers call passes every non-bindless binding
\* set with a UAV binding to setResourceStatesForBindingSet, also when the
\* dirty flag is clear and no slot changed since the previous call.
C17_UavSetsAlwaysReevaluated ==
    InsertedResourceBarriers =>
        \A i \in DOMAIN NewBindings :
            (~BindingSetInfo(NewBindings[i]).bindless
             /\ BindingSetInfo(NewBindings[i]).hasUavBindings) =>
                <<i - 1, NewBindings[i]>> \in lastOp.sets

\* the state the last setGraphicsState / setComputeState call set
NewState ==
    IF lastOp.kind = "setGraphicsState"
    THEN GraphicsStateDesc(lastOp.res)
    ELSE ComputeStateDesc(lastOp.res)

\* the last call made a requireState call for the buffer, unless b is null
Required(b, state) == b # "null" => <<b, state>> \in lastOp.req

\* C18: an insert*ResourceBarriers call that finds the dirty flag set passes
\* every non-bindless binding set of the new state to
\* setResourceStatesForBindingSet and (graphics) re-requires the index buffer,
\* every vertex buffer, the framebuffer attachments and the indirect-argument
\* buffers, whether or not they equal the previous call's; the flag is clear
\* afterwards.
C18_DirtyForcesEverything ==
    (InsertedResourceBarriers /\ lastOp.prior.dirty) =>
        /\ \A i \in DOMAIN NewState.bindings :
               ~BindingSetInfo(NewState.bindings[i]).bindless =>
                   <<i - 1, NewState.bindings[i]>> \in lastOp.sets
        /\ Required(NewState.indirectParams, IndirectArgument)
        /\ lastOp.kind = "setGraphicsState" =>
               /\ Required(NewState.indexBuffer, IndexBuffer)
               /\ \A i \in DOMAIN NewState.vertexBuffers :
                      Required(NewState.vertexBuffers[i], VertexBuffer)
               /\ \A i \in DOMAIN FramebufferDesc(NewState.framebuffer).colorAttachments :
                      <<FramebufferDesc(NewState.framebuffer).colorAttachments[i].texture,
                        RenderTarget>> \in lastOp.req
               /\ Required(NewState.indirectCountParams, IndirectArgument)
        /\ ~m_BindingStatesDirty

\* C18 witness: the binding state was invalidated and the draw state set
\* again was the one of the previous draw: both binding sets, the index
\* buffer, the vertex buffer, the render target and the indirect-argument
\* buffer were required again
C18_Witness ==
    /\ InsertedResourceBarriers
    /\ lastOp.kind = "setGraphicsState"
    /\ lastOp.res = "gsPair"
    /\ lastOp.prior.dirty
    /\ lastOp.prior.state = GraphicsStateDesc("gsPair")
    /\ lastOp.sets = {<<0, "bsSrv">>, <<1, "bsUav">>}
    /\ <<"bufB", IndexBuffer>> \in lastOp.req
    /\ <<"bufV", VertexBuffer>> \in lastOp.req
    /\ <<"texB", RenderTarget>> \in lastOp.req
    /\ <<"bufI", IndirectArgument>> \in lastOp.req

\* slot i (from 1) of the new binding vector differs from the previous call's
SlotChanged(i) ==
    \/ i > Len(lastOp.prior.state.bindings)
    \/ lastOp.prior.state.bindings[i] # NewState.bindings[i]

\* some slot differs between the two vectors, counting the slots that only
\* the new or only the old vector has
AnySlotChanged ==
    \/ Len(lastOp.prior.state.bindings) # Len(NewState.bindings)
    \/ \E i \in DOMAIN NewState.bindings : SlotChanged(i)

\* C19: an insert*ResourceBarriers call that finds the dirty flag clear
\* re-submits the non-bindless binding sets at the slots that differ from the
\* previous call's vector, and a set with UAV bindings also when some other
\* slot changed; a set at an unchanged slot that has no UAV bindings is not
\* re-submitted, and when nothing of the binding state changed and no set has
\* UAV bindings no requireState call is made and no record is appended; slots
\* that only the new or only the old vector has count as changed.
C19_OnlyChangedSlots ==
    (InsertedResourceBarriers /\ ~lastOp.prior.dirty) =>
        /\ \A i \in DOMAIN NewState.bindings :
               LET bs == NewState.bindings[i]
               IN  ~BindingSetInfo(bs).bindless =>
                       (<<i - 1, bs>> \in lastOp.sets <=>
                            \/ SlotChanged(i)
                            \/ BindingSetInfo(bs).hasUavBindings /\ AnySlotChanged)
        /\ \A e \in lastOp.sets :
               /\ e[1] + 1 \in DOMAIN NewState.bindings
               /\ NewState.bindings[e[1] + 1] = e[2]
        /\ (/\ lastOp.prior.state = NewState
            /\ \A i \in DOMAIN NewState.bindings :
                   ~BindingSetInfo(NewState.bindings[i]).hasUavBindings) =>
               /\ lastOp.req = {}
               /\ lastOp.nApp = 0

\* C19 witness: with the dirty flag clear, slot 1 went from the UAV set to the
\* constant-buffer set while slot 0 kept the SRV set: only slot 1 was
\* re-submitted
C19_Witness ==
    /\ InsertedResourceBarriers
    /\ lastOp.kind = "setGraphicsState"
    /\ lastOp.res = "gsSwap"
    /\ ~lastOp.prior.dirty
    /\ lastOp.prior.state = GraphicsStateDesc("gsPair")
    /\ lastOp.sets = {<<1, "bsCb">>}
    /\ <<"bufB", ConstantBuffer>> \in lastOp.req
    /\ <<"texB", ShaderResource>> \notin lastOp.req

\* C20: Minimality.  requireTextureState over a resolvable range of a
\* non-pinned texture whose subresources all hold one stored state, other
\* than the desired one, appends exactly one coalesced transition record, for
\* a partial range as for the whole texture.
C20_OneRecordPerUniformRange ==
    (/\ lastOp.kind = "setTextureState"
     /\ ~lastOp.prior.pinned
     /\ Resolvable(lastOp.sub, TexDesc(lastOp.res))
     /\ lastOp.prior.state \notin {"mixed", lastOp.state}) =>
        lastOp.nApp = 1

\* C21: requireTextureState(t, R, S) for a resolvable range R changes the
\* stored state only of the subresources of t inside R: every subresource of
\* t outside R keeps its stored state, and the stored state of every other
\* texture and of every buffer is unchanged.
C21_OutsideRangeUnchanged ==
    [][(/\ lastOp'.kind = "setTextureState"
        /\ Resolvable(lastOp'.sub, TexDesc(lastOp'.res))) =>
           LET t == lastOp'.res
               desc == TexDesc(t)
           IN  /\ \A mip \in 0..(desc.mipLevels - 1), slice \in 0..(desc.arraySize - 1) :
                      <<mip, slice>> \notin Requested(lastOp'.sub, desc) =>
                          tex'[t].subresourceStates[CalcSubresource(mip, slice, desc)] =
                              tex[t].subresourceStates[CalcSubresource(mip, slice, desc)]
               /\ \A u \in Textures \ {t} : tex'[u] = tex[u]
               /\ buf' = buf]_vars

\* C21 witness: every subresource was in ShaderResource and mip 0 was required
\* in UnorderedAccess: mip 0 is stored in UnorderedAccess, mip 1 still in
\* ShaderResource
C21_Witness ==
    /\ lastOp.kind = "setTextureState"
    /\ lastOp.res = "texA"
    /\ lastOp.sub = SubresourceSet(0, 1, 0, AllArraySlices)
    /\ lastOp.state = UnorderedAccess
    /\ lastOp.prior.state = ShaderResource
    /\ ~lastOp.prior.pinned
    /\ lastOp.nApp = 2
    /\ Tracker_getTextureSubresourceState(Cur, "texA", 0, 0) = UnorderedAccess
    /\ Tracker_getTextureSubresourceState(Cur, "texA", 1, 0) = UnorderedAccess
    /\ Tracker_getTextureSubresourceState(Cur, "texA", 0, 1) = ShaderResource
    /\ Tracker_getTextureSubresourceState(Cur, "texA", 1, 1) = ShaderResource

\* the (mip, slice) pairs a pending texture record covers: all of the texture
\* for a record flagged entireTexture, one pair otherwise
Covered(rec) ==
    IF rec.entireTexture
    THEN (0..(TexDesc(rec.texture).mipLevels - 1)) \X (0..(TexDesc(rec.texture).arraySize - 1))
    ELSE {<<rec.mipLevel, rec.arraySlice>>}

\* C22: no two records of the pending texture list that name the same texture
\* cover a common subresource.
C22_NoOverlappingRecords ==
    \A i, j \in DOMAIN m_TextureBarriers :
        (i < j /\ m_TextureBarriers[i].texture = m_TextureBarriers[j].texture) =>
            Covered(m_TextureBarriers[i]) \cap Covered(m_TextureBarriers[j]) = {}

\* a subresource set with explicit counts names a mip level or, for an array
\* texture, an array slice that the texture does not have
NamesOutsideBounds(sub, desc) ==
    \/ /\ sub.numMipLevels # AllMipLevels
       /\ sub.numMipLevels >= 1
       /\ sub.baseMipLevel + sub.numMipLevels > desc.mipLevels
    \/ /\ IsArrayDimension(desc.dimension)
       /\ sub.numArraySlices # AllArraySlices
       /\ sub.numArraySlices >= 1
       /\ sub.baseArraySlice + sub.numArraySlices > desc.arraySize

\* C23: requireTextureState with a subresource set that names a mip level or
\* array slice outside the texture's bounds is reported through the message
\* callback and does nothing else: no stored state changes and no transition
\* record is appended.
C23_OutOfBoundsRejected ==
    [][(/\ lastOp'.kind = "setTextureState"
        /\ NamesOutsideBounds(lastOp'.sub, TexDesc(lastOp'.res))) =>
           /\ lastOp'.diag >= 1
           /\ lastOp'.nApp = 0
           /\ UNCHANGED <<tex, buf, m_TextureBarriers, m_BufferBarriers>>]_vars

\* the stored state of resource r at position i (1 for a buffer) in a value
\* of tex and a value of buf
StoredIn(texv, bufv, r, i) ==
    IF r \in Textures THEN texv[r].subresourceStates[i] ELSE bufv[r].state

\* the positions of the stored states of resource r
Positions(r) == IF r \in Textures THEN 1..NumSubresources(r) ELSE {1}

\* the pending texture records whose stateAfter is Unknown
ToUnknown(list) == {i \in DOMAIN list : list[i].stateAfter = Unknown}

RecordsFor(c, b) ==
    {i \in DOMAIN recorders[c].bufferBarriers : recorders[c].bufferBarriers[i].buffer = b}

NewestRecordOf(c) == recorders[c].bufferBarriers[Len(recorders[c].bufferBarriers)]

\* C25: contexts that record at the same time share the buffers' records
\* without a lock.  A requireState call takes its decision on a state that is
\* no longer the stored one exactly when another context wrote the same
\* buffer between the call's read and its write; nothing else makes the
\* recorded transitions inconsistent with the stored state.
C25_StaleOnlyWhenRacing ==
    \A c \in Contexts :
        LET last == recorders[c].last
        IN  last.res # "none" /\ last.stale => last.interfered

\* the interleaving of C25: a call recorded a transition from a state that
\* was no longer stored, and both contexts hold a pending transition of the
\* same buffer from that same stateBefore
C25_Witness ==
    \E c \in Contexts :
        LET last == recorders[c].last
        IN  /\ last.res # "none"
            /\ last.interfered
            /\ last.stale
            /\ last.nApp = 1
            /\ \A d \in Contexts :
                   \E i \in RecordsFor(d, last.res) :
                       recorders[d].bufferBarriers[i].stateBefore =
                           NewestRecordOf(c).stateBefore

\* C26: with serialized recordings the stored state survives from one
\* recording to the next.  The first transition a recording appends for a
\* buffer has stateBefore equal to the state stored when the recording was
\* opened, that is the state the earlier recording left; and a call that
\* requires the stored state, other than UnorderedAccess, appends nothing.
C26_StateSurvivesSessions ==
    \A c \in Contexts :
        LET last == recorders[c].last
        IN  /\ \A b \in Buffers :
                   \A i \in RecordsFor(c, b) :
                       (\A j \in RecordsFor(c, b) : i <= j) =>
                           recorders[c].bufferBarriers[i].stateBefore = recorders[c].atOpen[b]
            /\ last.res # "none" /\ last.same /\ last.state # UnorderedAccess
                   => last.nApp = 0

\* a second recording holds a transition of bufA from the state the first
\* one left, and its requirement of the state left on bufB appended nothing
C26_Witness ==
    /\ ~recorders[1].open
    /\ recorders[2].open
    /\ recorders[2].atOpen["bufA"] # Unknown
    /\ \E i \in RecordsFor(2, "bufA") :
           recorders[2].bufferBarriers[i].stateBefore = recorders[2].atOpen["bufA"]
    /\ recorders[2].last.res = "bufB"
    /\ recorders[2].last.state = recorders[2].atOpen["bufB"]
    /\ recorders[2].last.state \notin {Unknown, UnorderedAccess}
    /\ recorders[2].last.nApp = 0
    /\ RecordsFor(2, "bufB") = {}

CopyKinds == {"copyTextureToStaging", "copyTextureFromStaging", "copyBuffer",
              "writeBuffer", "clearBufferUInt"}

CopyCommands == {"copyImageToBuffer", "copyBufferToImage", "CopyBufferRegion",
                 "ClearUnorderedAccessViewUint"}

\* C27: with automatic barriers disabled a copy or clear operation makes no
\* requireState call and appends no transition, so the stored states of all
\* textures and buffers are the same after it; and when it records its copy
\* command it has committed before: every transition that was pending is
\* submitted in a native barrier call that precedes the command, and the
\* pending lists are empty when the command is recorded.
C27_DisabledBarriersStillCommit ==
    [][(lastOp'.kind \in CopyKinds /\ ~m_EnableAutomaticBarriers) =>
           /\ lastOp'.req = {}
           /\ lastOp'.nApp = 0
           /\ UNCHANGED <<tex, buf>>
           /\ (events' # <<>> /\ events'[Len(events')].kind \in CopyCommands) =>
                  /\ events'[Len(events')].pendingEmpty
                  /\ m_TextureBarriers' = <<>>
                  /\ m_BufferBarriers' = <<>>
                  /\ lastOp'.nOut = Len(m_TextureBarriers) + Len(m_BufferBarriers)
                  /\ ~NothingPending =>
                         \E i \in 1..(Len(events') - 1) : events'[i].kind = "nativeBarrier"]_vars

\* C27 witness: with automatic barriers disabled, the texture-to-staging copy
\* flushed a pending transition before its command and left its source in a
\* state that is not CopySource
C27_Witness ==
    /\ ~m_EnableAutomaticBarriers
    /\ lastOp.kind = "copyTextureToStaging"
    /\ lastOp.req = {}
    /\ lastOp.nOut >= 1
    /\ events # <<>>
    /\ \E i \in 1..(Len(events) - 1) : events[i].kind = "nativeBarrier"
    /\ LastEvent.kind = "copyImageToBuffer"
    /\ LastEvent.pendingEmpty
    /\ LastEvent.srcState # CopySource
    /\ TextureHolds(lastOp.res[2], AllSubresources, LastEvent.srcState)

\* the resolved set r lies inside the descriptor, its fields read as unsigned
\* 32-bit numbers and the sums taken without wrap-around
InsideDescriptor(r, desc) ==
    /\ ULessEq(r.baseMipLevel, desc.mipLevels)
    /\ ULessEq(r.numMipLevels, desc.mipLevels - r.baseMipLevel)
    /\ IF IsArrayDimension(desc.dimension)
       THEN /\ ULessEq(r.baseArraySlice, desc.arraySize)
            /\ ULessEq(r.numArraySlices, desc.arraySize - r.baseArraySlice)
       ELSE r.baseArraySlice = 0 /\ r.numArraySlices = 1

\* C28: resolve(desc, false) returns a range inside the descriptor for every
\* subresource set passed to it: base + count does not exceed the number of
\* mip levels, nor, for array dimensions, the array size, also for a wildcard
\* count with a non-zero base and for a base at or beyond the size.
C28_ResolveInsideDescriptor ==
    lastOp.kind = "setTextureState" =>
        InsideDescriptor(Resolve(lastOp.sub, TexDesc(lastOp.res), FALSE), TexDesc(lastOp.res))

\* the records of a pending texture list that cover position i of texture t,
\* in the order they were appended
CoveringRecords(list, t, i) ==
    SelectSeq(list, LAMBDA rec :
        /\ rec.texture = t
        /\ \E ms \in Covered(rec) : ms[1] * TexDesc(t).arraySize + ms[2] + 1 = i)

RecordsOfBuffer(list, b) == SelectSeq(list, LAMBDA rec : rec.buffer = b)

\* the records form a chain that ends in the state stored
ChainEndingIn(recs, stored) ==
    /\ \A k \in 1..(Len(recs) - 1) : recs[k + 1].stateBefore = recs[k].stateAfter
    /\ recs # <<>> => recs[Len(recs)].stateAfter = stored

\* the records a step appended to a pending list
AppendedTo(list, list2) ==
    IF Len(list2) >= Len(list) /\ SubSeq(list2, 1, Len(list)) = list
    THEN SubSeq(list2, Len(list) + 1, Len(list2))
    ELSE <<>>

\* in a step that is not a commit, the records appended for a position start
\* from the state stored before the step and chain to the state stored after
\* it, and the stored state changes only together with such a record
ChainStep(recs, stored, stored2) ==
    /\ recs # <<>> => recs[1].stateBefore = stored
    /\ ChainEndingIn(recs, stored2)
    /\ recs = <<>> => stored2 = stored

\* C29: without beginTracking calls the transitions recorded for a subresource
\* or buffer form a chain: the first one starts from Unknown, each one starts
\* from the stateAfter of the one recorded before it for the same subresource,
\* and the stored state is the stateAfter of the one recorded last.  The
\* pending records are such a chain ending in the stored state, and every
\* call continues the chain from the state stored before it.
C29_TransitionChain ==
    /\ [](/\ \A t \in Textures : \A i \in Positions(t) :
                 ChainEndingIn(CoveringRecords(m_TextureBarriers, t, i),
                               tex[t].subresourceStates[i])
          /\ \A b \in Buffers :
                 ChainEndingIn(RecordsOfBuffer(m_BufferBarriers, b), buf[b].state))
    /\ [][lastOp'.kind # "commitBarriers" =>
             /\ \A t \in Textures : \A i \in Positions(t) :
                    ChainStep(CoveringRecords(AppendedTo(m_TextureBarriers, m_TextureBarriers'), t, i),
                              tex[t].subresourceStates[i], tex'[t].subresourceStates[i])
             /\ \A b \in Buffers :
                    ChainStep(RecordsOfBuffer(AppendedTo(m_BufferBarriers, m_BufferBarriers'), b),
                              buf[b].state, buf'[b].state)]_vars
    /\ [][lastOp'.kind = "commitBarriers" => UNCHANGED <<tex, buf>>]_vars

\* C29 witness: mip 1 of texB has a pending chain of two transitions that
\* continues an earlier one: the first starts from a state other than Unknown,
\* the second starts where the first ended and ends in the stored state
C29_Witness ==
    LET recs == CoveringRecords(m_TextureBarriers, "texB", 2)
    IN  /\ Len(recs) = 2
        /\ recs[1].stateBefore # Unknown
        /\ recs[1].stateAfter # recs[1].stateBefore
        /\ recs[2].stateBefore = recs[1].stateAfter
        /\ recs[2].stateAfter = tex["texB"].subresourceStates[2]
        /\ ~tex["texB"].permanentTransition

\* the (mip, layer) pairs inside the subresource range of a native image barrier
BarrierRange(b) ==
    (b.baseMipLevel..(b.baseMipLevel + b.levelCount - 1))
        \X (b.baseArrayLayer..(b.baseArrayLayer + b.layerCount - 1))

\* the subresources, as <<texture, mip, slice>>, whose stored state the records
\* of a pending texture list changed
ChangedBy(list) ==
    UNION {{<<list[i].texture, ms[1], ms[2]>> : ms \in Covered(list[i])} :
               i \in {k \in DOMAIN list : list[k].stateBefore # list[k].stateAfter}}

\* the subresources covered by a sequence of native image barriers
CoveredByNative(images) ==
    UNION {{<<images[i].image, ms[1], ms[2]>> : ms \in BarrierRange(images[i])} :
               i \in DOMAIN images}

\* the subresources the records of a pending texture list name
NamedBy(list) ==
    UNION {{<<list[i].texture, ms[1], ms[2]>> : ms \in Covered(list[i])} : i \in DOMAIN list}

\* the native image barriers are made one per record, over the whole texture
\* for an entireTexture record and over the record's mip level and array
\* slice otherwise
RangesMatchRecords(images, recs) ==
    /\ Len(images) = Len(recs)
    /\ \A i \in DOMAIN images :
           /\ images[i].image = recs[i].texture
           /\ recs[i].entireTexture =>
                  BarrierRange(images[i]) =
                      (0..(TexDesc(recs[i].texture).mipLevels - 1))
                          \X (0..(TexDesc(recs[i].texture).arraySize - 1))
           /\ ~recs[i].entireTexture =>
                  BarrierRange(images[i]) = {<<recs[i].mipLevel, recs[i].arraySlice>>}

\* C30 as stated: a Vulkan commit covers with native image barriers exactly
\* the subresources whose stored state the pending texture records changed:
\* the barrier made from an entireTexture record spans every mip level and
\* every array layer of its texture, the barrier made from any other record
\* spans the one mip level and array slice the record names, and no changed
\* subresource is left without a barrier.
C30_NativeRangesAsStated ==
    (backend = "vulkan" /\ lastOp.kind = "commitBarriers") =>
        /\ RangesMatchRecords(SubmittedImageBarriers(events), lastOp.prior.tb)
        /\ CoveredByNative(SubmittedImageBarriers(events)) = ChangedBy(lastOp.prior.tb)

\* C30, amended: a Vulkan commit covers with native image barriers exactly
\* the subresources the pending texture records name, with the ranges above.
\* These are the subresources whose stored state the records changed and, in
\* addition, the subresources that got an UnorderedAccess to UnorderedAccess
\* record, whose state did not change; no changed subresource is left without
\* a barrier.
C30_NativeRangesMatchRecords ==
    (backend = "vulkan" /\ lastOp.kind = "commitBarriers") =>
        LET images == SubmittedImageBarriers(events)
            recs == lastOp.prior.tb
        IN  /\ RangesMatchRecords(images, recs)
            /\ CoveredByNative(images) = NamedBy(recs)
            /\ ChangedBy(recs) \subseteq CoveredByNative(images)
            /\ \A x \in CoveredByNative(images) \ ChangedBy(recs) :
                   \E i \in DOMAIN recs :
                       /\ recs[i].texture = x[1]
                       /\ <<x[2], x[3]>> \in Covered(recs[i])
                       /\ recs[i].stateBefore = UnorderedAccess
                       /\ recs[i].stateAfter = UnorderedAccess

\* C30 witness: one commit submitted a barrier over the whole of texA and a
\* barrier over a single one of its subresources
C30_Witness ==
    /\ backend = "vulkan"
    /\ lastOp.kind = "commitBarriers"
    /\ Len(lastOp.prior.tb) = 2
    /\ \E i, j \in DOMAIN lastOp.prior.tb :
           /\ lastOp.prior.tb[i].entireTexture
           /\ ~lastOp.prior.tb[j].entireTexture
           /\ lastOp.prior.tb[j].mipLevel = 1
           /\ lastOp.prior.tb[j].arraySlice = 1
    /\ Cardinality(CoveredByNative(SubmittedImageBarriers(events))) = 4

\* the state setResourceStatesForBindingSet is to require for a binding type,
\* "none" for the types that need no state
StateOfBindingType(type) ==
    CASE type \in {"Texture_SRV", "TypedBuffer_SRV", "StructuredBuffer_SRV", "RawBuffer_SRV"}
             -> ShaderResource
      [] type \in {"Texture_UAV", "TypedBuffer_UAV", "StructuredBuffer_UAV", "RawBuffer_UAV"}
             -> UnorderedAccess
      [] type = "ConstantBuffer" -> ConstantBuffer
      [] type = "RayTracingAccelStruct" -> AccelStructRead
      [] OTHER -> "none"

\* the resource whose state a binding needs
ResourceOfBinding(binding) ==
    IF binding.type = "RayTracingAccelStruct"
    THEN DataBuffer(binding.resourceHandle)
    ELSE binding.resourceHandle

\* the indices of the bindings of set bs listed in bindingsThatNeedTransitions
ListedBindings(bs) ==
    IF bs = "null" THEN {}
    ELSE IF BindingSetInfo(bs).bindless THEN {}
    ELSE Range(BindingSetInfo(bs).bindingsThatNeedTransitions)

BindingOf(bs, i) == BindingSetInfo(bs).bindings[i]

\* C31: setResourceStatesForBindingSet makes one requireState call for each
\* binding listed in bindingsThatNeedTransitions whose type needs a state, for
\* the state of that type (ShaderResource for SRVs, UnorderedAccess for UAVs,
\* ConstantBuffer for constant buffers, AccelStructRead on the data buffer of
\* an acceleration structure), over the binding's subresources for a texture,
\* and no other requireState call; none at all for a null or bindless set.
C31_RequiredStatesPerBinding ==
    lastOp.kind = "setResourceStatesForBindingSet" =>
        /\ lastOp.req =
               {<<ResourceOfBinding(BindingOf(lastOp.res, i)),
                  StateOfBindingType(BindingOf(lastOp.res, i).type)>> :
                    i \in {k \in ListedBindings(lastOp.res) :
                               StateOfBindingType(BindingOf(lastOp.res, k).type) # "none"}}
        /\ \A i \in ListedBindings(lastOp.res) :
               LET b == BindingOf(lastOp.res, i)
               IN  b.type \in {"Texture_SRV", "Texture_UAV"} =>
                       TextureHolds(b.resourceHandle, b.subresources,
                                    StateOfBindingType(b.type))
        /\ lastOp.nApp <= Cardinality(lastOp.req)

\* C31 witness: the set with an acceleration structure, an unlisted buffer
\* SRV and a listed sampler required AccelStructRead on the data buffer and
\* nothing else, while the unlisted buffer is not in ShaderResource
C31_Witness ==
    /\ lastOp.kind = "setResourceStatesForBindingSet"
    /\ lastOp.res = "bsAs"
    /\ lastOp.req = {<<"bufB", AccelStructRead>>}
    /\ lastOp.nApp = 1
    /\ buf["bufB"].state = AccelStructRead
    /\ buf["bufV"].state = Unknown
    /\ buf["bufA"].state = UnorderedAccess

InsertKinds == {"setGraphicsState", "setComputeState", "setMeshletState", "setRayTracingState"}

\* the last call ran one of the four insert*ResourceBarriers functions
InsertedAnyResourceBarriers == lastOp.kind \in InsertKinds /\ m_EnableAutomaticBarriers

\* the state the last set*State call set
StateSet ==
    IF lastOp.kind = "setGraphicsState" THEN GraphicsStateDesc(lastOp.res)
    ELSE IF lastOp.kind = "setComputeState" THEN ComputeStateDesc(lastOp.res)
    ELSE lastOp.res

\* the last call re-evaluated everything the state it set refers to
FullyReevaluated ==
    /\ \A i \in DOMAIN StateSet.bindings :
           ~BindingSetInfo(StateSet.bindings[i]).bindless =>
               <<i - 1, StateSet.bindings[i]>> \in lastOp.sets
    /\ lastOp.kind = "setGraphicsState" =>
           /\ Required(StateSet.indexBuffer, IndexBuffer)
           /\ \A i \in DOMAIN StateSet.vertexBuffers :
                  Required(StateSet.vertexBuffers[i], VertexBuffer)
           /\ Required(StateSet.indirectCountParams, IndirectArgument)
    /\ lastOp.kind \in {"setGraphicsState", "setMeshletState"} =>
           <<"texB", RenderTarget>> \in lastOp.req
    /\ lastOp.kind \in {"setGraphicsState", "setComputeState", "setMeshletState"} =>
           Required(StateSet.indirectParams, IndirectArgument)

\* C32: the dirty flag is false when any of the four insert*ResourceBarriers
\* functions has returned, and it is cleared nowhere else.  A call that found
\* the flag set re-evaluates everything, its last check as well as its first;
\* the call after it finds the flag clear, so that setting the unchanged state
\* again (without UAV binding sets) requires nothing: one invalidation forces
\* exactly the first insert* call that follows, of whichever pipeline type.
C32_DirtyFlagClearedAtEnd ==
    /\ [](InsertedAnyResourceBarriers =>
             /\ ~m_BindingStatesDirty
             /\ lastOp.prior.dirty => FullyReevaluated
             /\ (/\ ~lastOp.prior.dirty
                 /\ StateSet = lastOp.prior.state
                 /\ \A i \in DOMAIN StateSet.bindings :
                        ~BindingSetInfo(StateSet.bindings[i]).hasUavBindings)
                    => lastOp.req = {} /\ lastOp.sets = {})
    /\ [][(m_BindingStatesDirty /\ ~m_BindingStatesDirty') =>
              lastOp'.kind \in InsertKinds /\ m_EnableAutomaticBarriers]_vars
    /\ [][(m_BindingStatesDirty /\ lastOp'.kind \in InsertKinds /\ m_EnableAutomaticBarriers)
              => lastOp'.prior.dirty /\ ~m_BindingStatesDirty']_vars

\* C32 witness: after an invalidation the same meshlet state was set again:
\* the call found the flag set, required the framebuffer and the indirect
\* buffer again although neither changed, and left the flag clear
C32_Witness ==
    /\ m_EnableAutomaticBarriers
    /\ lastOp.kind = "setMeshletState"
    /\ lastOp.prior.dirty
    /\ lastOp.res = lastOp.prior.state
    /\ lastOp.res.indirectParams = "bufI"
    /\ <<"bufI", IndirectArgument>> \in lastOp.req
    /\ <<"texB", RenderTarget>> \in lastOp.req
    /\ <<0, "bsSrv">> \in lastOp.sets
    /\ ~m_BindingStatesDirty

\* the staging texture that exists, and its footprints
Staging == stagingTexture.handle[1]

\* C33: every placed footprint of a staging texture lies inside the backing
\* buffer: its offset plus its totalBytes does not exceed the byteSize the
\* buffer was created with, the total computeCopyableFootprints returned.
C33_FootprintsInsideBuffer ==
    stagingTexture.handle # <<>> =>
        \A i \in DOMAIN Staging.placedFootprints :
            Staging.placedFootprints[i].offset + Staging.placedFootprints[i].totalBytes
                <= Staging.buffer.byteSize

\* C34: the footprints of distinct subresources of a staging texture occupy
\* disjoint byte ranges, and getCopyableFootprint(mip, slice) returns the
\* footprint generated for that mip level and array slice.
C34_FootprintsDisjointAndIndexed ==
    /\ stagingTexture.handle # <<>> =>
           \A i, j \in DOMAIN Staging.placedFootprints :
               i < j =>
                   \/ Staging.placedFootprints[i].offset + Staging.placedFootprints[i].totalBytes
                          <= Staging.placedFootprints[j].offset
                   \/ Staging.placedFootprints[j].offset + Staging.placedFootprints[j].totalBytes
                          <= Staging.placedFootprints[i].offset
    /\ stagingTexture.read # <<>> =>
           /\ stagingTexture.read[1].footprint.mipSlice = stagingTexture.read[1].mipLevel
           /\ stagingTexture.read[1].footprint.arraySlice = stagingTexture.read[1].arraySlice

\* C35: getTimerQueryTime returns in every execution in which the device
\* eventually answers each poll with success or with a lost device: a call that
\* has entered the polling loop leaves it.
C35_GetTimerQueryTimeReturns ==
    (timerQueryCall.pc = "polling") ~> (timerQueryCall.pc = "idle")

\* the calls that may clear a started flag, and those that may clear resolved
ConsumingCalls == {"getTimerQueryTime", "resetTimerQuery"}
UnresolvingCalls == {"beginTimerQuery", "resetTimerQuery"}

\* C36: started becomes true by endTimerQuery only and false by
\* getTimerQueryTime or resetTimerQuery only, and is true after endTimerQuery
\* and false after the other two; pollTimerQuery returns false on a query that
\* is not started, and true without asking the device on a started query it has
\* resolved, which stays resolved until it is consumed, reset or begun again;
\* beginTimerQuery and endTimerQuery on a started query fail their assertion.
C36_TimerQueryLifecycle ==
    [][/\ \A q \in Queries :
              /\ (~timerQueries[q].started /\ timerQueries'[q].started)
                     => queryOp'.kind = "endTimerQuery" /\ queryOp'.query = q
              /\ (timerQueries[q].started /\ ~timerQueries'[q].started)
                     => queryOp'.kind \in ConsumingCalls /\ queryOp'.query = q
              /\ (timerQueries[q].started /\ timerQueries[q].resolved
                     /\ ~(timerQueries'[q].started /\ timerQueries'[q].resolved))
                     => /\ queryOp'.kind \in ConsumingCalls \cup UnresolvingCalls
                        /\ queryOp'.query = q
       /\ (queryOp' # queryOp /\ ~queryOp'.aborted) =>
              /\ queryOp'.kind = "endTimerQuery" => timerQueries'[queryOp'.query].started
              /\ queryOp'.kind \in ConsumingCalls => ~timerQueries'[queryOp'.query].started
              /\ (queryOp'.kind = "pollTimerQuery" /\ ~queryOp'.before.started)
                     => ~queryOp'.ret /\ ~queryOp'.asked
              /\ (queryOp'.kind = "pollTimerQuery" /\ queryOp'.ret)
                     => /\ timerQueries'[queryOp'.query].started
                        /\ timerQueries'[queryOp'.query].resolved
              /\ (queryOp'.kind = "pollTimerQuery" /\ queryOp'.before.started
                     /\ queryOp'.before.resolved)
                     => queryOp'.ret /\ ~queryOp'.asked
       /\ (queryOp' # queryOp /\ queryOp'.kind \in {"beginTimerQuery", "endTimerQuery"}
              /\ queryOp'.before.started)
              => queryOp'.assertFailed
      ]_vars

\* a resolved query was polled again: true, and the device was not asked
C36_Witness ==
    /\ queryOp.kind = "pollTimerQuery"
    /\ queryOp.before.started
    /\ queryOp.before.resolved
    /\ queryOp.ret
    /\ ~queryOp.asked

\* C37: under every interleaving of createTimerQuery calls, and of
\* createPipelineStatisticsQuery calls, each pool is created at most once and
\* exactly once when it exists, the creating thread holds the device mutex,
\* and no thread allocates a query index while the pool is null.
C37_PoolCreatedOnce ==
    /\ \A k \in QueryKinds :
           /\ m_QueryPools[k].created <= 1
           /\ m_QueryPools[k].pool # "null" <=> m_QueryPools[k].created = 1
           /\ ~m_QueryPools[k].early
           /\ m_QueryPools[k].allocated > 0 => m_QueryPools[k].pool # "null"
    /\ \A t \in Threads :
           /\ threads[t].pc = "allocate" => m_QueryPools[threads[t].kind].pool # "null"
           /\ threads[t].pc \in {"check2", "create", "unlock"} => m_Mutex = t

\* two threads both saw the timer query pool null, and both got a query from
\* the one pool
C37_Witness ==
    /\ \A t \in Threads :
           /\ threads[t].kind = "timer"
           /\ threads[t].first = "null"
           /\ threads[t].pc = "idle"
           /\ threads[t].result = "query"
    /\ m_QueryPools["timer"].created = 1

\* the call before this step took an error path of writeBuffer or
\* clearBufferUInt, or wrote a volatile buffer
FailedUpload == lastOp'.kind = "writeBuffer" /\ ~lastOp'.state
ClearWithoutUav == lastOp'.kind = "clearBufferUInt" /\ ~BufDesc(lastOp'.res).canHaveUAVs
VolatileWrite ==
    lastOp'.kind = "writeBuffer" /\ lastOp'.state /\ BufDesc(lastOp'.res).isVolatile

\* the step made no requireState call, committed nothing, recorded no native
\* call and left stored states and pending lists as they were
TrackingUntouched ==
    /\ lastOp'.req = {}
    /\ lastOp'.nApp = 0
    /\ lastOp'.nOut = 0
    /\ events' = <<>>
    /\ buf' = buf
    /\ tex' = tex
    /\ m_BufferBarriers' = m_BufferBarriers
    /\ m_TextureBarriers' = m_TextureBarriers

\* C38: a D3D12 writeBuffer whose upload allocation fails and a clearBufferUInt
\* on a buffer without UAV support report one error and return with no
\* requireBufferState or commitBarriers call and no command recorded; a
\* writeBuffer to a volatile buffer touches no tracking state and reports
\* nothing.
C38_ErrorPathsLeaveTracking ==
    [][/\ (FailedUpload \/ ClearWithoutUav) => lastOp'.diag = 1 /\ TrackingUntouched
       /\ VolatileWrite => lastOp'.diag = 0 /\ TrackingUntouched
      ]_vars

\* an upload failed while a transition of the destination was still to be
\* made and another record was pending
C38_Witness ==
    /\ lastOp.kind = "writeBuffer"
    /\ ~lastOp.state
    /\ lastOp.res = "bufA"
    /\ lastOp.diag = 1
    /\ m_EnableAutomaticBarriers
    /\ buf["bufA"].state # CopyDest
    /\ ~buf["bufA"].permanentTransition
    /\ Len(m_BufferBarriers) > 0

\* C39: BufferRange::resolve returns a range inside the buffer, byteOffset and
\* byteOffset + byteSize both at most desc.byteSize; a byteSize of 0 resolves
\* to the rest of the buffer, any other to itself or to the rest if that is
\* less; resolving the result against the same descriptor returns it unchanged.
C39_ResolveInsideAndIdempotent ==
    bufferRange.calls > 0 =>
        LET size == bufferRange.desc.byteSize
            range == bufferRange.range
            resolved == bufferRange.resolved
        IN  /\ resolved.byteOffset <= size
            /\ resolved.byteOffset + resolved.byteSize <= size
            /\ resolved.byteOffset = Min(range.byteOffset, size)
            /\ range.byteSize = 0 => resolved.byteOffset + resolved.byteSize = size
            /\ range.byteSize # 0 =>
                   resolved.byteSize = Min(range.byteSize, size - resolved.byteOffset)
            /\ bufferRange.again = resolved

\* a range that starts inside the buffer and runs past its end was cut there
C39_Witness ==
    /\ bufferRange.calls > 0
    /\ bufferRange.range.byteOffset > 0
    /\ bufferRange.range.byteOffset < bufferRange.desc.byteSize
    /\ bufferRange.range.byteSize > bufferRange.desc.byteSize
    /\ bufferRange.resolved.byteSize > 0
    /\ bufferRange.resolved.byteOffset + bufferRange.resolved.byteSize
           = bufferRange.desc.byteSize

====
